---- MODULE Spec2Model ----
(***************************************************************************)
(* Model of the diagram pipeline of parodesign: the diagram parser         *)
(* (extractDiagramFromResponse, validateDiagram, stripDiagramMarkers), the *)
(* layout engine (getAutoLayout) and the shape synthesizer                 *)
(* (getGeoTypeForNode, generateTldrawShapes), and the host that drives     *)
(* them: the chat hook (useChatAPI), the effect of ChatPanel that draws    *)
(* the diagram of the last message, and the test buttons of the page.      *)
(*                                                                         *)
(* A text is a sequence of symbols.  A symbol is one lexical unit of the   *)
(* response: a punctuation character of JSON, a whitespace character, a    *)
(* word, or one of the two literal markers.  The markers cannot overlap    *)
(* each other or themselves (each begins with its only "[" and ends with   *)
(* its only "]"), so String.indexOf over characters and the index of a     *)
(* marker symbol in the symbol sequence pick the same occurrence.          *)
(*                                                                         *)
(* A JavaScript value is a record [t |-> tag, v |-> payload].              *)
(***************************************************************************)
EXTENDS Integers, Sequences, FiniteSets, TLC

VARIABLES
    raw,        \* the value handed to validateDiagram, as the caller built it
    diagram,    \* the same object after the call (what the callee left of it)
    valid,      \* outcome of validateDiagram: "pending", "true", "false", "TypeError"
    response,   \* the assistant text handed to the parser
    model,      \* the value whose serialization is the body of response, or JUndefined
    extracted,  \* outcome of extractDiagramFromResponse, or NotCalled
    stripped,   \* outcome of stripDiagramMarkers, or NotStripped
    givenModel,   \* the model handed to getAutoLayout, as the caller built it
    givenOptions, \* the LayoutOptions handed to getAutoLayout
    graphArg,     \* the model object after the latest call on it
    libraryGraph, \* the library graph the latest call of getAutoLayout built
    layoutResult, \* outcome of the latest call on givenModel, or NotLaidOut
    firstResult,  \* outcome of the first call on givenModel, or NotLaidOut
    calls,        \* number of calls made on givenModel
    earlierAt,    \* the value of calls when another model was last laid out, or -1
    givenLayout,  \* the LayoutResult handed to generateTldrawShapes
    shapes,       \* the shapes on the editor's canvas, in creation order
    nodeShapeMap, \* the node-to-shape map at the end of generateTldrawShapes
    nextShapeId,  \* the shape id createShapeId() hands out next
    generated,    \* outcome of generateTldrawShapes: "pending", "return", "TypeError"
    regenerated,  \* what a second call on givenLayout created, or NotRegenerated
    apiKey,       \* OPENAI_CONFIG.apiKey
    editorReady,  \* the page holds the editor of the mounted canvas
    messages,     \* the messages of the chat hook
    isLoading,    \* the loading flag of the chat hook
    error,        \* the error text of the chat hook, or empty for null
    turns,        \* number of requests sendMessage has started
    inflight,     \* the turns whose fetch has not settled
    effectDue,    \* messages or editor changed and the panel effect has not run yet
    draw,         \* the handler or effect that is drawing, and its place in its code
    queue,        \* the shapes it has still to create, in order
    clicks,       \* number of clicks on the buttons of the page and of the panel
    lastEvent,    \* the latest event the host handled (a refused call is one)
    before,       \* the shapes on the canvas when that event arrived
    lastExtracted,\* the latest diagram extractDiagramFromResponse returned to the hook
    log           \* every message ever appended: its turn and its role

parserVars == <<raw, diagram, valid, response, model, extracted, stripped>>
layoutVars ==
    <<givenModel, givenOptions, graphArg, libraryGraph, layoutResult, firstResult, calls,
      earlierAt>>
shapeVars == <<givenLayout, shapes, nodeShapeMap, nextShapeId, generated, regenerated>>

hostVars ==
    <<apiKey, editorReady, messages, isLoading, error, turns, inflight, effectDue, draw,
      queue, clicks, lastEvent, before, lastExtracted, log>>

vars == <<parserVars, layoutVars, shapeVars, hostVars>>

----------------------------------------------------------------------------
(* Bounds *)

MaxNodes == 2
MaxEdges == 2
MaxPad == 1
MaxLayoutNodes == 4
MaxLayoutEdges == 2
MaxCalls == 2
MaxTurns == 2
MaxClicks == 1

----------------------------------------------------------------------------
(* JavaScript values *)

JUndefined == [t |-> "undefined", v |-> 0]
JNull == [t |-> "null", v |-> 0]
JBool(b) == [t |-> "boolean", v |-> b]
JNum(n) == [t |-> "number", v |-> n]
JStr(s) == [t |-> "string", v |-> s]
JArr(a) == [t |-> "array", v |-> a]
JObj(f) == [t |-> "object", v |-> f]

\* a one-word string, and the key of a property
Str(w) == JStr(<<w>>)
Key(w) == <<w>>

\* !x is FALSE exactly for the truthy values
Truthy(x) ==
    CASE x.t = "undefined" -> FALSE
      [] x.t = "null" -> FALSE
      [] x.t = "boolean" -> x.v
      [] x.t = "number" -> x.v # 0
      [] x.t = "string" -> x.v # <<>>
      [] OTHER -> TRUE

\* typeof x
TypeOf(x) ==
    CASE x.t \in {"null", "array", "object"} -> "object"
      [] OTHER -> x.t

\* Array.isArray(x)
IsArray(x) == x.t = "array"

\* x.k throws a TypeError when x is null or undefined
AccessThrows(x) == x.t \in {"null", "undefined"}

\* x.k for the property names the parser reads (none of them is an own
\* property of a number, a string or an array)
Get(x, k) ==
    IF x.t = "object" /\ Key(k) \in DOMAIN x.v THEN x.v[Key(k)] ELSE JUndefined

\* a === b; two objects or arrays of one parsed value are never the same reference
StrictEq(a, b) ==
    /\ a.t = b.t
    /\ CASE a.t \in {"undefined", "null"} -> TRUE
         [] a.t \in {"array", "object"} -> FALSE
         [] OTHER -> a.v = b.v

\* list.includes(x)
Includes(list, x) == \E i \in 1..Len(list) : StrictEq(list[i], x)

\* list.some(n => n.id === x)
SomeIdIs(nodes, x) == \E i \in 1..Len(nodes) : StrictEq(Get(nodes[i], "id"), x)

----------------------------------------------------------------------------
(* validateDiagram *)

validTypes ==
    <<Str("start"), Str("process"), Str("decision"), Str("end"), Str("data"),
      Str("default")>>

\* the body of the loop over diagram.nodes for one node:
\* "TypeError", "false" (return false) or "next" (go on)
NodeStep(node) ==
    IF AccessThrows(node) THEN "TypeError"
    ELSE IF \/ ~Truthy(Get(node, "id"))
            \/ ~Truthy(Get(node, "label"))
            \/ ~Truthy(Get(node, "type")) THEN "false"
    ELSE IF ~Includes(validTypes, Get(node, "type")) THEN "false"
    ELSE "next"

SourceExistsWrongField(nodes, edge) == SomeIdIs(nodes, Get(edge, "id"))

SourceExists(nodes, edge) == SomeIdIs(nodes, Get(edge, "source"))

TargetExists(nodes, edge) == SomeIdIs(nodes, Get(edge, "target"))

\* the body of the loop over diagram.edges for one edge
EdgeStep(edge, nodes) ==
    IF AccessThrows(edge) THEN "TypeError"
    ELSE IF \/ ~Truthy(Get(edge, "id"))
            \/ ~Truthy(Get(edge, "source"))
            \/ ~Truthy(Get(edge, "target")) THEN "false"
    ELSE IF ~SourceExists(nodes, edge) \/ ~TargetExists(nodes, edge) THEN "false"
    ELSE "next"

RECURSIVE ForNodes(_, _)
ForNodes(nodes, i) ==
    IF i > Len(nodes) THEN "next"
    ELSE IF NodeStep(nodes[i]) # "next" THEN NodeStep(nodes[i])
    ELSE ForNodes(nodes, i + 1)

RECURSIVE ForEdges(_, _, _)
ForEdges(edges, nodes, i) ==
    IF i > Len(edges) THEN "next"
    ELSE IF EdgeStep(edges[i], nodes) # "next" THEN EdgeStep(edges[i], nodes)
    ELSE ForEdges(edges, nodes, i + 1)

\* the outcome of validateDiagram(d): ret is "true", "false" or "TypeError"
\* (the exception leaves the function), arg is the argument after the call
validateDiagram(d) ==
    LET ret ==
            IF ~Truthy(d) \/ TypeOf(d) # "object" THEN "false"
            ELSE IF ~IsArray(Get(d, "nodes")) \/ ~IsArray(Get(d, "edges")) THEN "false"
            ELSE IF ForNodes(Get(d, "nodes").v, 1) # "next"
                THEN ForNodes(Get(d, "nodes").v, 1)
            ELSE IF ForEdges(Get(d, "edges").v, Get(d, "nodes").v, 1) # "next"
                THEN ForEdges(Get(d, "edges").v, Get(d, "nodes").v, 1)
            ELSE "true"
    IN  [ret |-> ret, arg |-> d]

----------------------------------------------------------------------------
(* Inputs of the validator: parsed JSON of any shape *)

NodeObj(id, label, type) ==
    JObj((Key("id") :> id) @@ (Key("label") :> label) @@ (Key("type") :> type))

EdgeObj(id, source, target) ==
    JObj((Key("id") :> id) @@ (Key("source") :> source) @@ (Key("target") :> target))

WithLabel(edge, label) == JObj((Key("label") :> label) @@ edge.v)

Without(obj, k) == JObj([q \in DOMAIN obj.v \ {Key(k)} |-> obj.v[q]])

GraphObj(nodes, edges) ==
    JObj((Key("nodes") :> nodes) @@ (Key("edges") :> edges))

nodeA == NodeObj(Str("a"), Str("Start"), Str("start"))
nodeB == NodeObj(Str("b"), Str("End"), Str("end"))
nodeA2 == NodeObj(Str("a"), Str("Step"), Str("process"))
nodeBadType == NodeObj(Str("b"), Str("Step"), Str("circle"))
nodeEmptyLabel == NodeObj(Str("b"), JStr(<<>>), Str("process"))

edgeAB == WithLabel(EdgeObj(Str("e1"), Str("a"), Str("b")), JStr(<<>>))
edgeBA == WithLabel(EdgeObj(Str("e2"), Str("b"), Str("a")), Str("yes"))
edgeAA == EdgeObj(Str("e1"), Str("a"), Str("a"))
edgeZA == EdgeObj(Str("e3"), Str("z"), Str("a"))
edgeAZ == EdgeObj(Str("e4"), Str("a"), Str("z"))

\* what an element of the nodes array can be
NodeElements ==
    { nodeA, nodeB, nodeA2, nodeBadType, nodeEmptyLabel,
      Without(nodeB, "id"), Without(nodeB, "label"), Without(nodeB, "type"),
      JNull, JNum(5), Str("x"), JArr(<<>>) }

\* what an element of the edges array can be
EdgeElements ==
    { edgeAB, edgeBA, edgeAA, edgeZA, edgeAZ,
      Without(edgeAB, "id"), Without(edgeAB, "source"), Without(edgeAB, "target"),
      JNull }

SeqsUpTo(S, n) == UNION { [1..k -> S] : k \in 0..n }

\* parsed values that are not an object with two arrays
NonGraphs ==
    { JNull, JNum(0), JNum(5), JBool(TRUE), Str("x"), JStr(<<>>), JArr(<<>>),
      JArr(<<nodeA>>), JObj(<<>>),
      JObj(Key("nodes") :> JArr(<<nodeA>>)),
      JObj(Key("edges") :> JArr(<<>>)),
      GraphObj(Str("x"), JArr(<<>>)),
      GraphObj(JArr(<<nodeA>>), JNull),
      GraphObj(JObj(<<>>), JArr(<<>>)) }

\* the elements paired with every list of the other array
PlainNodes == {nodeA, nodeB}
PlainEdges == {edgeAB, edgeAZ}

----------------------------------------------------------------------------
(* Texts *)

startMarker == <<"[DIAGRAM_START]">>
endMarker == <<"[DIAGRAM_END]">>
placeholder == <<"[Diagram generated]">>

Quote == "Q"
Whitespace == {" ", "\n"}

Min(a, b) == IF a < b THEN a ELSE b
Max(a, b) == IF a < b THEN b ELSE a

\* text.indexOf(marker) for a one-symbol marker: zero-based, -1 when absent
IndexOf(text, marker) ==
    IF \E i \in 1..Len(text) : text[i] = marker[1]
    THEN (CHOOSE i \in 1..Len(text) :
            /\ text[i] = marker[1]
            /\ \A j \in 1..(i - 1) : text[j] # marker[1]) - 1
    ELSE -1

\* text.substring(a, b): zero-based, half-open, arguments clamped and swapped
\* when a > b
Substring(text, a, b) ==
    LET ca == Max(0, Min(a, Len(text)))
        cb == Max(0, Min(b, Len(text)))
    IN  SubSeq(text, Min(ca, cb) + 1, Max(ca, cb))

RECURSIVE TrimStart(_)
TrimStart(text) ==
    IF text # <<>> /\ Head(text) \in Whitespace THEN TrimStart(Tail(text)) ELSE text

RECURSIVE TrimEnd(_)
TrimEnd(text) ==
    IF text # <<>> /\ text[Len(text)] \in Whitespace
    THEN TrimEnd(SubSeq(text, 1, Len(text) - 1))
    ELSE text

\* text.trim()
Trim(text) == TrimEnd(TrimStart(text))

----------------------------------------------------------------------------
(* JSON.parse over symbols.  A result is [ok, val, pos]: pos is the        *)
(* one-based position of the first symbol not consumed; ok = FALSE is the  *)
(* SyntaxError.                                                            *)

SyntaxError == [ok |-> FALSE, val |-> JUndefined, pos |-> 0]
Parsed(val, pos) == [ok |-> TRUE, val |-> val, pos |-> pos]

RECURSIVE SkipWs(_, _)
SkipWs(text, i) ==
    IF i <= Len(text) /\ text[i] \in Whitespace THEN SkipWs(text, i + 1) ELSE i

\* a string literal opening at text[i]: every symbol up to the next quote,
\* none of them a raw line break
ParseString(text, i) ==
    IF \E j \in (i + 1)..Len(text) : text[j] = Quote
    THEN LET close == CHOOSE j \in (i + 1)..Len(text) :
                        /\ text[j] = Quote
                        /\ \A k \in (i + 1)..(j - 1) : text[k] # Quote
         IN  IF \E k \in (i + 1)..(close - 1) : text[k] = "\n"
             THEN SyntaxError
             ELSE Parsed(JStr(SubSeq(text, i + 1, close - 1)), close + 1)
    ELSE SyntaxError

RECURSIVE ParseValue(_, _)
RECURSIVE ParseElements(_, _, _)
RECURSIVE ParseMembers(_, _, _)

\* the value that starts at text[i] (whitespace already skipped)
ParseValue(text, i) ==
    IF i > Len(text) THEN SyntaxError
    ELSE CASE text[i] = "{" ->
                IF SkipWs(text, i + 1) <= Len(text) /\ text[SkipWs(text, i + 1)] = "}"
                THEN Parsed(JObj(<<>>), SkipWs(text, i + 1) + 1)
                ELSE ParseMembers(text, SkipWs(text, i + 1), <<>>)
           [] text[i] = "[" ->
                IF SkipWs(text, i + 1) <= Len(text) /\ text[SkipWs(text, i + 1)] = "]"
                THEN Parsed(JArr(<<>>), SkipWs(text, i + 1) + 1)
                ELSE ParseElements(text, SkipWs(text, i + 1), <<>>)
           [] text[i] = Quote -> ParseString(text, i)
           [] text[i] = "null" -> Parsed(JNull, i + 1)
           [] text[i] = "true" -> Parsed(JBool(TRUE), i + 1)
           [] text[i] = "false" -> Parsed(JBool(FALSE), i + 1)
           [] text[i] = "0" -> Parsed(JNum(0), i + 1)
           [] text[i] = "5" -> Parsed(JNum(5), i + 1)
           [] OTHER -> SyntaxError

\* the elements of an array from text[i] on, acc the elements read so far
ParseElements(text, i, acc) ==
    LET element == ParseValue(text, i)
        j == SkipWs(text, element.pos)
    IN  IF ~element.ok \/ j > Len(text) THEN SyntaxError
        ELSE IF text[j] = ","
            THEN ParseElements(text, SkipWs(text, j + 1), Append(acc, element.val))
        ELSE IF text[j] = "]" THEN Parsed(JArr(Append(acc, element.val)), j + 1)
        ELSE SyntaxError

\* the members of an object from text[i] on, acc the members read so far;
\* a repeated key keeps its last value
ParseMembers(text, i, acc) ==
    IF i > Len(text) \/ text[i] # Quote THEN SyntaxError
    ELSE LET key == ParseString(text, i)
             colon == SkipWs(text, key.pos)
         IN  IF ~key.ok \/ colon > Len(text) \/ text[colon] # ":" THEN SyntaxError
             ELSE LET member == ParseValue(text, SkipWs(text, colon + 1))
                      j == SkipWs(text, member.pos)
                      members == (key.val.v :> member.val) @@ acc
                  IN  IF ~member.ok \/ j > Len(text) THEN SyntaxError
                      ELSE IF text[j] = ","
                          THEN ParseMembers(text, SkipWs(text, j + 1), members)
                      ELSE IF text[j] = "}" THEN Parsed(JObj(members), j + 1)
                      ELSE SyntaxError

\* JSON.parse(text): one value, whitespace around it, nothing after it
JSONParse(text) ==
    LET value == ParseValue(text, SkipWs(text, 1))
    IN  IF value.ok /\ SkipWs(text, value.pos) = Len(text) + 1 THEN value
        ELSE SyntaxError

----------------------------------------------------------------------------
(* extractDiagramFromResponse *)

Return(val) == [kind |-> "return", val |-> val]
Throw == [kind |-> "throw", val |-> JUndefined]

BothMarkersAbsent(startIndex, endIndex) == startIndex = -1 /\ endIndex = -1

EitherMarkerAbsent(startIndex, endIndex) == startIndex = -1 \/ endIndex = -1

JsonStartAtMarker(startIndex) == startIndex

\* where the JSON text begins: right after the start marker
JsonStart(startIndex) == startIndex + Len(startMarker)

ReturnUnchecked(checked) == Return(checked.arg)

\* the end of the try block: null when the validator said no, else the diagram
ReturnChecked(checked) ==
    IF checked.ret = "false" THEN Return(JNull) ELSE Return(checked.arg)

\* the try block: it returns a value or throws
TryBlock(text) ==
    LET startIndex == IndexOf(text, startMarker)
        endIndex == IndexOf(text, endMarker)
        jsonStr == Trim(Substring(text, JsonStart(startIndex), endIndex))
        parsed == JSONParse(jsonStr)
        checked == validateDiagram(parsed.val)
    IN  IF EitherMarkerAbsent(startIndex, endIndex) THEN Return(JNull)
        ELSE IF ~parsed.ok THEN Throw
        ELSE IF checked.ret = "TypeError" THEN Throw
        ELSE ReturnChecked(checked)

Rethrow(outcome) == outcome

\* the catch clause turns every exception of the try block into null
Catch(outcome) == IF outcome.kind = "throw" THEN Return(JNull) ELSE outcome

extractDiagramFromResponse(text) == Catch(TryBlock(text))

----------------------------------------------------------------------------
(* stripDiagramMarkers *)

\* whether the pattern matches at the one-based position i: a start marker
\* there and an end marker somewhere after it
MatchesAt(text, i) ==
    /\ text[i] = startMarker[1]
    /\ \E j \in (i + 1)..Len(text) : text[j] = endMarker[1]

MatchEndGreedy(text, i) ==
    CHOOSE j \in (i + 1)..Len(text) :
        /\ text[j] = endMarker[1]
        /\ \A k \in (j + 1)..Len(text) : text[k] # endMarker[1]

\* the lazy quantifier stops at the nearest end marker
MatchEnd(text, i) ==
    CHOOSE j \in (i + 1)..Len(text) :
        /\ text[j] = endMarker[1]
        /\ \A k \in (i + 1)..(j - 1) : text[k] # endMarker[1]

\* text.replace(/\[DIAGRAM_START\][\s\S]*?\[DIAGRAM_END\]/g, placeholder):
\* the leftmost match is replaced and the scan resumes after it
RECURSIVE ReplaceAll(_)
ReplaceAll(text) ==
    IF \E i \in 1..Len(text) : MatchesAt(text, i)
    THEN LET first == CHOOSE i \in 1..Len(text) :
                        /\ MatchesAt(text, i)
                        /\ \A k \in 1..(i - 1) : ~MatchesAt(text, k)
         IN  SubSeq(text, 1, first - 1) \o placeholder
                \o ReplaceAll(SubSeq(text, MatchEnd(text, first) + 1, Len(text)))
    ELSE text

stripDiagramMarkers(text) == Trim(ReplaceAll(text))

----------------------------------------------------------------------------
(* Inputs of the parser: texts around the serialization of a value *)

KeyOrder == <<"nodes", "edges", "id", "source", "target", "label", "type">>

\* the keys of obj in the order they are written
RECURSIVE KeysOf(_, _)
KeysOf(obj, i) ==
    IF i > Len(KeyOrder) THEN <<>>
    ELSE IF Key(KeyOrder[i]) \in DOMAIN obj.v THEN <<KeyOrder[i]>> \o KeysOf(obj, i + 1)
    ELSE KeysOf(obj, i + 1)

\* JSON.stringify(value), or with line breaks and spaces when pretty
RECURSIVE Stringify(_, _)
RECURSIVE StringifyElements(_, _, _)
RECURSIVE StringifyMembers(_, _, _, _)

Stringify(value, pretty) ==
    CASE value.t = "null" -> <<"null">>
      [] value.t = "boolean" -> IF value.v THEN <<"true">> ELSE <<"false">>
      [] value.t = "number" -> IF value.v = 0 THEN <<"0">> ELSE <<"5">>
      [] value.t = "string" -> <<Quote>> \o value.v \o <<Quote>>
      [] value.t = "array" ->
            IF value.v = <<>> THEN <<"[", "]">>
            ELSE <<"[">> \o StringifyElements(value.v, 1, pretty) \o <<"]">>
      [] value.t = "object" ->
            IF KeysOf(value, 1) = <<>> THEN <<"{", "}">>
            ELSE <<"{">> \o StringifyMembers(value, KeysOf(value, 1), 1, pretty) \o <<"}">>

StringifyElements(elements, i, pretty) ==
    (IF pretty THEN <<"\n">> ELSE <<>>)
    \o Stringify(elements[i], pretty)
    \o (IF i < Len(elements)
        THEN <<",">> \o StringifyElements(elements, i + 1, pretty)
        ELSE IF pretty THEN <<"\n">> ELSE <<>>)

StringifyMembers(obj, keys, i, pretty) ==
    (IF pretty THEN <<"\n">> ELSE <<>>)
    \o <<Quote, keys[i], Quote, ":">>
    \o (IF pretty THEN <<" ">> ELSE <<>>)
    \o Stringify(obj.v[Key(keys[i])], pretty)
    \o (IF i < Len(keys)
        THEN <<",">> \o StringifyMembers(obj, keys, i + 1, pretty)
        ELSE IF pretty THEN <<"\n">> ELSE <<>>)

nodeC == NodeObj(Str("c"), JStr(<<"until", endMarker[1]>>), Str("data"))

ResponseNodeElements == { nodeA, nodeB, nodeC, JNull }
ResponseEdgeElements == { edgeAB, JNull }

ResponseModels ==
    { GraphObj(JArr(ns), JArr(es)) :
        ns \in SeqsUpTo(ResponseNodeElements, MaxNodes),
        es \in SeqsUpTo(ResponseEdgeElements, MaxEdges) }
    \cup { JNull, JNum(5), JArr(<<>>), JObj(<<>>) }

\* bodies that are not the serialization of any value
BrokenBodies == { <<>>, <<"x">>, <<"{">>, <<"[", "null", ",", "]">>, <<"{", "}", "x">> }

\* a few values of each kind: accepted, rejected, throwing, cut by a marker
SampleModels ==
    { GraphObj(JArr(<<nodeA, nodeB>>), JArr(<<edgeAB>>)),
      GraphObj(JArr(<<nodeA>>), JArr(<<edgeAB>>)),
      GraphObj(JArr(<<JNull>>), JArr(<<>>)),
      GraphObj(JArr(<<nodeC>>), JArr(<<>>)),
      JNull }

\* text before the block and after it: no marker in it
Pads == SeqsUpTo({"x", " "}, MaxPad)

Shapes ==
    { "block", "spaced", "none", "startOnly", "endOnly", "reversed", "twoBlocks",
      "endFirst" }

Compose(shape, pre, body, post) ==
    CASE shape = "block" -> pre \o startMarker \o body \o endMarker \o post
      [] shape = "spaced" ->
            pre \o startMarker \o <<"\n">> \o body \o <<"\n">> \o endMarker \o post
      [] shape = "none" -> pre \o body \o post
      [] shape = "startOnly" -> pre \o startMarker \o body \o post
      [] shape = "endOnly" -> pre \o body \o endMarker \o post
      [] shape = "reversed" -> pre \o endMarker \o body \o startMarker \o post
      [] shape = "twoBlocks" ->
            pre \o startMarker \o body \o endMarker \o post
                \o startMarker \o body \o endMarker \o post
      [] shape = "endFirst" ->
            endMarker \o pre \o startMarker \o body \o endMarker \o post

\* the paddings put around every model
PlainPads == { <<>>, <<"x">> }

----------------------------------------------------------------------------
(* The layout engine: getAutoLayout and the layered layout it delegates to *)

\* Lengths are counted in half pixels, so that halving a whole number of
\* pixels is exact: Px(n) is n pixels.
Px(n) == 2 * n
Half(n) == n \div 2

NODE_WIDTH == Px(180)
NODE_HEIGHT == Px(80)

\* a destructured option: the default applies when the property is undefined
Opt(options, k, default) == IF k \in DOMAIN options THEN options[k] ELSE default

Destructure(options) ==
    [ rankdir |-> Opt(options, "rankdir", "TB"),
      nodesep |-> Opt(options, "nodesep", Px(50)),
      ranksep |-> Opt(options, "ranksep", Px(100)),
      nodeWidth |-> Opt(options, "nodeWidth", NODE_WIDTH),
      nodeHeight |-> Opt(options, "nodeHeight", NODE_HEIGHT) ]

\* A graph of the layout library: its configuration, the node keys and the
\* edges in insertion order, and the label object of every node.  A node is
\* keyed by its id as a string.
EmptyGraph == [config |-> <<>>, nodes |-> <<>>, label |-> <<>>, edges |-> <<>>]

\* the label object of a node that only an edge has named
NoLabel == [undefined |-> TRUE]

ReuseGraph(previous) == previous

\* new dagre.graphlib.Graph(): nothing of an earlier call is in it
NewGraph(previous) == EmptyGraph

ConfigWithLibraryRanksep(opts) ==
    [rankdir |-> opts.rankdir, nodesep |-> opts.nodesep, ranksep |-> Px(50)]

\* the object handed to graph.setGraph
ConfigFromOptions(opts) ==
    [rankdir |-> opts.rankdir, nodesep |-> opts.nodesep, ranksep |-> opts.ranksep]

setGraph(g, config) == [g EXCEPT !.config = config]

InSeq(s, x) == \E i \in 1..Len(s) : s[i] = x

\* graph.setNode(v, value): a key already present keeps its place and takes
\* the new label object
setNode(g, v, value) ==
    [g EXCEPT !.nodes = IF InSeq(g.nodes, v) THEN @ ELSE Append(@, v),
              !.label = (v :> value) @@ @]

\* graph.setEdge(v, w) on a graph that is not a multigraph: the edge v -> w
\* is kept once, and a missing end node is created without a label object
setEdge(g, v, w) ==
    LET withV == IF InSeq(g.nodes, v) THEN g ELSE setNode(g, v, NoLabel)
        withW == IF InSeq(withV.nodes, w) THEN withV ELSE setNode(withV, w, NoLabel)
    IN  [withW EXCEPT !.edges = IF InSeq(@, <<v, w>>) THEN @ ELSE Append(@, <<v, w>>)]

NodeLabelUndefined(node, width, height) == NoLabel

NodeLabelWithoutSize(node, width, height) ==
    [label |-> Get(node, "label"), width |-> 0, height |-> 0]

\* the label object getAutoLayout gives a node
NodeLabel(node, width, height) ==
    [label |-> Get(node, "label"), width |-> width, height |-> height]

\* graphModel.nodes.forEach(node => graph.setNode(node.id, {...}))
RECURSIVE AddNodes(_, _, _, _, _)
AddNodes(g, nodes, i, width, height) ==
    IF i > Len(nodes) THEN g
    ELSE AddNodes(setNode(g, Get(nodes[i], "id").v, NodeLabel(nodes[i], width, height)),
                  nodes, i + 1, width, height)

\* graphModel.edges.forEach(edge => graph.setEdge(edge.source, edge.target))
RECURSIVE AddEdges(_, _, _)
AddEdges(g, edges, i) ==
    IF i > Len(edges) THEN g
    ELSE AddEdges(setEdge(g, Get(edges[i], "source").v, Get(edges[i], "target").v),
                  edges, i + 1)

\* the targets of the edges leaving v, in insertion order, loops set aside
OutNodes(edges, v) ==
    LET leaving == SelectSeq(edges, LAMBDA e : e[1] = v /\ e[2] # v)
    IN  [i \in 1..Len(leaving) |-> leaving[i][2]]

\* Depth-first search from v: an edge that reaches a node still on the
\* stack closes a cycle and joins the feedback set.
RECURSIVE DfsVisit(_, _, _)
RECURSIVE DfsEdges(_, _, _, _, _)
DfsVisit(edges, v, st) ==
    IF v \in st.visited THEN st
    ELSE DfsEdges(edges, v, OutNodes(edges, v), 1,
                  [st EXCEPT !.visited = @ \cup {v}, !.stack = @ \cup {v}])

DfsEdges(edges, v, out, i, st) ==
    IF i > Len(out) THEN [st EXCEPT !.stack = @ \ {v}]
    ELSE IF out[i] \in st.stack
        THEN DfsEdges(edges, v, out, i + 1, [st EXCEPT !.fas = @ \cup {<<v, out[i]>>}])
    ELSE DfsEdges(edges, v, out, i + 1, DfsVisit(edges, out[i], st))

RECURSIVE DfsFrom(_, _, _, _)
DfsFrom(nodes, edges, i, st) ==
    IF i > Len(nodes) THEN st
    ELSE DfsFrom(nodes, edges, i + 1, DfsVisit(edges, nodes[i], st))

\* the edges whose reversal leaves the graph without a cycle
FeedbackSet(g) ==
    DfsFrom(g.nodes, g.edges, 1, [visited |-> {}, stack |-> {}, fas |-> {}]).fas

\* the edges that constrain the ranks: loops dropped, feedback edges reversed
RankingEdges(g) ==
    LET fas == FeedbackSet(g)
        kept == { g.edges[i] : i \in 1..Len(g.edges) }
    IN  { e \in kept : e[1] # e[2] /\ e \notin fas } \cup { <<e[2], e[1]>> : e \in fas }

SetMax(S) == CHOOSE m \in S : \A n \in S : n <= m

\* longest-path layering from the sources
RECURSIVE LongestPath(_, _)
LongestPath(v, acyclic) ==
    LET preds == { e[1] : e \in { d \in acyclic : d[2] = v } }
    IN  IF preds = {} THEN 0
        ELSE 1 + SetMax({ LongestPath(u, acyclic) : u \in preds })

RECURSIVE SumSeq(_)
SumSeq(s) == IF s = <<>> THEN 0 ELSE s[1] + SumSeq(Tail(s))

\* the place of x in a sequence that holds it once
Place(s, x) == CHOOSE i \in 1..Len(s) : s[i] = x

\* the box of a node of the graph; a node without a label object has none
BoxWidth(g, v) == IF g.label[v] = NoLabel THEN 0 ELSE g.label[v].width
BoxHeight(g, v) == IF g.label[v] = NoLabel THEN 0 ELSE g.label[v].height

\* the size of the box of v along the perpendicular axis
Across(g, v) ==
    IF g.config.rankdir \in {"LR", "RL"} THEN BoxHeight(g, v) ELSE BoxWidth(g, v)

\* Where the box of v starts along the perpendicular axis.  A rank keeps the
\* insertion order; a box starts nodesep after the box before it in its
\* rank, or further on, centered on the first node that ranks v.
RECURSIVE AcrossStart(_, _, _, _)
AcrossStart(g, rank, acyclic, v) ==
    LET l == SelectSeq(g.nodes, LAMBDA u : rank[u] = rank[v])
        k == Place(l, v)
        afterPrevious ==
            IF k = 1 THEN 0
            ELSE AcrossStart(g, rank, acyclic, l[k - 1]) + Across(g, l[k - 1])
                 + g.config.nodesep
        above == SelectSeq(g.nodes, LAMBDA u : <<u, v>> \in acyclic)
        underFirst ==
            IF above = <<>> THEN 0
            ELSE AcrossStart(g, rank, acyclic, above[1]) + Half(Across(g, above[1]))
                 - Half(Across(g, v))
    IN  IF underFirst > afterPrevious THEN underFirst ELSE afterPrevious

\* dagre.layout(graph): every node with a label object receives the center
\* of its box.  Nodes are ranked, the boxes of a rank are laid along the
\* perpendicular axis with at least nodesep between them, and the ranks
\* follow each other along the rank axis with ranksep between them.
dagreLayout(g) ==
    LET acyclic == RankingEdges(g)
        rank == [v \in { g.nodes[i] : i \in 1..Len(g.nodes) } |-> LongestPath(v, acyclic)]
        sideways == g.config.rankdir \in {"LR", "RL"}
        reversed == g.config.rankdir \in {"BT", "RL"}
        along(v) == IF sideways THEN BoxWidth(g, v) ELSE BoxHeight(g, v)
        across(v) == IF sideways THEN BoxHeight(g, v) ELSE BoxWidth(g, v)
        maxRank == SetMax({0} \cup { rank[v] : v \in DOMAIN rank })
        band(r) == SetMax({0} \cup { along(v) : v \in { u \in DOMAIN rank : rank[u] = r } })
        \* the ranks in the order they are met along the rank axis
        slot(r) == IF reversed THEN maxRank - r ELSE r
        rankOf(s) == IF reversed THEN maxRank - s ELSE s
        bandStart(r) ==
            SumSeq([s \in 1..slot(r) |-> band(rankOf(s - 1)) + g.config.ranksep])
        alongCenter(v) == bandStart(rank[v]) + Half(band(rank[v]))
        acrossCenter(v) == AcrossStart(g, rank, acyclic, v) + Half(across(v))
        placed(v) ==
            IF g.label[v] = NoLabel THEN NoLabel
            ELSE [ label |-> g.label[v].label,
                   width |-> g.label[v].width,
                   height |-> g.label[v].height,
                   x |-> IF sideways THEN alongCenter(v) ELSE acrossCenter(v),
                   y |-> IF sideways THEN acrossCenter(v) ELSE alongCenter(v),
                   rank |-> rank[v] ]
    IN  [g EXCEPT !.label = [v \in DOMAIN rank |-> placed(v)]]

\* graph.node(v): the label object, or undefined
HasNode(g, v) == v \in DOMAIN g.label /\ g.label[v] # NoLabel

TopLeftByWholeSize(center, size) == center - size

\* the corner of a box from its center: center - size / 2
TopLeft(center, size) == center - Half(size)

PositionedNodeWithoutSpread(node, nodeWithPosition, nodeWidth, nodeHeight) ==
    JObj((Key("x") :> JNum(TopLeft(nodeWithPosition.x, nodeWidth)))
         @@ (Key("y") :> JNum(TopLeft(nodeWithPosition.y, nodeHeight)))
         @@ (Key("width") :> JNum(nodeWidth))
         @@ (Key("height") :> JNum(nodeHeight))
         @@ (Key("id") :> Get(node, "id")))

\* { ...node, x, y, width, height }
PositionedNode(node, nodeWithPosition, nodeWidth, nodeHeight) ==
    JObj((Key("x") :> JNum(TopLeft(nodeWithPosition.x, nodeWidth)))
         @@ (Key("y") :> JNum(TopLeft(nodeWithPosition.y, nodeHeight)))
         @@ (Key("width") :> JNum(nodeWidth))
         @@ (Key("height") :> JNum(nodeHeight))
         @@ node.v)

ResultWithoutNodes(positionedNodes, edges) ==
    JObj((Key("nodes") :> JArr(<<>>)) @@ (Key("edges") :> edges))

\* { nodes: positionedNodes, edges: graphModel.edges }
LayoutResult(positionedNodes, edges) ==
    JObj((Key("nodes") :> JArr(positionedNodes)) @@ (Key("edges") :> edges))

\* getAutoLayout(graphModel, options) when the library graph of the call
\* before is previous: kind is "return" or "TypeError", val the result, arg
\* the argument after the call, graph the library graph after the call
getAutoLayout(graphModel, options, previous) ==
    LET opts == Destructure(options)
        nodes == Get(graphModel, "nodes").v
        edges == Get(graphModel, "edges").v
        configured == setGraph(NewGraph(previous), ConfigFromOptions(opts))
        withNodes == AddNodes(configured, nodes, 1, opts.nodeWidth, opts.nodeHeight)
        graph == dagreLayout(AddEdges(withNodes, edges, 1))
        \* nodeWithPosition.x throws when graph.node(node.id) is undefined
        throws == \E i \in 1..Len(nodes) : ~HasNode(graph, Get(nodes[i], "id").v)
        positionedNodes ==
            [i \in 1..Len(nodes) |->
                PositionedNode(nodes[i], graph.label[Get(nodes[i], "id").v],
                               opts.nodeWidth, opts.nodeHeight)]
    IN  [ kind |-> IF throws THEN "TypeError" ELSE "return",
          val |-> IF throws THEN JUndefined
                  ELSE LayoutResult(positionedNodes, Get(graphModel, "edges")),
          arg |-> graphModel,
          graph |-> graph ]

----------------------------------------------------------------------------
(* Inputs of the layout engine: validated models and options *)

nodeD ==
    JObj((Key("metadata") :> JObj(Key("owner") :> Str("ops")))
         @@ NodeObj(Str("d"), Str("Check"), Str("decision")).v)

nodeE == NodeObj(Str("e"), Str("Note"), Str("default"))

edgeAC == EdgeObj(Str("e6"), Str("a"), Str("c"))
edgeAB2 == WithLabel(EdgeObj(Str("e5"), Str("a"), Str("b")), Str("again"))

\* the elements of pool at the places S, in the order of pool
Pick(pool, S) ==
    LET places == SelectSeq([i \in 1..Len(pool) |-> i], LAMBDA i : i \in S)
    IN  [k \in 1..Len(places) |-> pool[places[k]]]

Picks(pool, n) ==
    { Pick(pool, S) : S \in { T \in SUBSET (1..Len(pool)) : Cardinality(T) <= n } }

LayoutNodePool == <<nodeA, nodeB, nodeC, nodeD, nodeA2>>
LayoutEdgePool == <<edgeAB, edgeBA, edgeAA, edgeAC, edgeAB2>>

Directions == {"TB", "BT", "LR", "RL"}

\* the options a caller passes: none, a direction, every field
LayoutOptionsSet ==
    { <<>>, [nodesep |-> Px(100)] }
    \cup { [rankdir |-> d] : d \in Directions }
    \cup { [rankdir |-> d, nodesep |-> Px(20), ranksep |-> Px(0),
            nodeWidth |-> Px(7), nodeHeight |-> Px(5)] : d \in Directions }

\* the options every model is laid out with
PlainOptions ==
    { <<>>,
      [rankdir |-> "LR", nodesep |-> Px(20), ranksep |-> Px(0),
       nodeWidth |-> Px(7), nodeHeight |-> Px(5)] }

\* the models every option is tried on: nothing, one node, two nodes of one
\* id, a cycle, and a tree beside an isolated node
SampleLayoutModels ==
    { GraphObj(JArr(<<>>), JArr(<<>>)),
      GraphObj(JArr(<<nodeD>>), JArr(<<>>)),
      GraphObj(JArr(<<nodeA, nodeA2>>), JArr(<<>>)),
      GraphObj(JArr(<<nodeA, nodeB>>), JArr(<<edgeAB, edgeBA>>)),
      GraphObj(JArr(<<nodeA, nodeB, nodeC, nodeD>>), JArr(<<edgeAB, edgeAC>>)) }

\* the calls that can come between two calls on one input
edgeDA == EdgeObj(Str("e8"), Str("d"), Str("a"))
EarlierModels == { GraphObj(JArr(<<nodeD, nodeA>>), JArr(<<edgeDA>>)) }

----------------------------------------------------------------------------
(* The shape synthesizer: getGeoTypeForNode and generateTldrawShapes *)

getGeoTypeForNodeDataAsDefault(nodeType) ==
    CASE StrictEq(nodeType, Str("decision")) -> "diamond"
      [] StrictEq(nodeType, Str("start")) \/ StrictEq(nodeType, Str("end")) -> "ellipse"
      [] OTHER -> "rectangle"

\* switch (nodeType)
getGeoTypeForNode(nodeType) ==
    CASE StrictEq(nodeType, Str("decision")) -> "diamond"
      [] StrictEq(nodeType, Str("start")) \/ StrictEq(nodeType, Str("end")) -> "ellipse"
      [] StrictEq(nodeType, Str("data")) -> "trapezoid"
      [] OTHER -> "rectangle"

GeoShapeCascaded(shapeId, node) ==
    [ id |-> shapeId, type |-> "geo",
      x |-> JNum(Get(node, "x").v + Px(shapeId)), y |-> Get(node, "y"),
      props |-> [ w |-> Get(node, "width"), h |-> Get(node, "height"),
                  geo |-> getGeoTypeForNode(Get(node, "type")),
                  text |-> Get(node, "label"),
                  fill |-> "solid",
                  color |-> IF StrictEq(Get(node, "type"), Str("start")) THEN "green"
                            ELSE IF StrictEq(Get(node, "type"), Str("end")) THEN "red"
                            ELSE "blue" ] ]

\* the argument of editor.createShape for a node
GeoShape(shapeId, node) ==
    [ id |-> shapeId, type |-> "geo", x |-> Get(node, "x"), y |-> Get(node, "y"),
      props |-> [ w |-> Get(node, "width"), h |-> Get(node, "height"),
                  geo |-> getGeoTypeForNode(Get(node, "type")),
                  text |-> Get(node, "label"),
                  fill |-> "solid",
                  color |-> IF StrictEq(Get(node, "type"), Str("start")) THEN "green"
                            ELSE IF StrictEq(Get(node, "type"), Str("end")) THEN "red"
                            ELSE "blue" ] ]

\* nodeShapeMap.get(key): the map is keyed by the id values
MapHas(map, k) == k \in DOMAIN map

\* layout.nodes.find(n => n.id === id): the place of the first such node, or 0
FindNode(nodes, id) ==
    IF SomeIdIs(nodes, id)
    THEN CHOOSE i \in 1..Len(nodes) :
            /\ StrictEq(Get(nodes[i], "id"), id)
            /\ \A j \in 1..(i - 1) : ~StrictEq(Get(nodes[j], "id"), id)
    ELSE 0

\* the argument of editor.createShape for an edge between two found nodes
ArrowShape(arrowId, edge, sourceNode, targetNode) ==
    [ id |-> arrowId, type |-> "arrow", x |-> 0, y |-> 0,
      props |-> [ start |-> [ x |-> Get(sourceNode, "x").v + Half(Get(sourceNode, "width").v),
                              y |-> Get(sourceNode, "y").v + Get(sourceNode, "height").v ],
                  end |-> [ x |-> Get(targetNode, "x").v + Half(Get(targetNode, "width").v),
                            y |-> Get(targetNode, "y").v ],
                  text |-> IF Truthy(Get(edge, "label")) THEN Get(edge, "label")
                           ELSE JStr(<<>>) ] ]

\* the two guards around the creation of an arrow
Resolved(map, nodes, edge) ==
    /\ MapHas(map, Get(edge, "source")) /\ MapHas(map, Get(edge, "target"))
    /\ FindNode(nodes, Get(edge, "source")) # 0
    /\ FindNode(nodes, Get(edge, "target")) # 0

ForEdgeUnguarded(st, map, nodes, edge) ==
    IF st.kind # "return" THEN st
    ELSE IF ~Resolved(map, nodes, edge) THEN [st EXCEPT !.kind = "TypeError"]
    ELSE [st EXCEPT !.created = Append(@, ArrowShape(st.next, edge,
                                      nodes[FindNode(nodes, Get(edge, "source"))],
                                      nodes[FindNode(nodes, Get(edge, "target"))])),
                    !.next = @ + 1]

\* the callback of layout.edges.forEach for one edge; st holds the shapes
\* created so far and the shape id createShapeId() hands out next
ForEdge(st, map, nodes, edge) ==
    IF st.kind # "return" THEN st
    ELSE IF ~Resolved(map, nodes, edge) THEN st
    ELSE [st EXCEPT !.created = Append(@, ArrowShape(st.next, edge,
                                      nodes[FindNode(nodes, Get(edge, "source"))],
                                      nodes[FindNode(nodes, Get(edge, "target"))])),
                    !.next = @ + 1]

ForNodePrepending(st, node) ==
    [st EXCEPT !.created = <<GeoShape(st.next, node)>> \o @,
               !.map = (Get(node, "id") :> st.next) @@ @,
               !.next = @ + 1]

\* the callback of layout.nodes.forEach for one node
ForNode(st, node) ==
    [st EXCEPT !.created = Append(@, GeoShape(st.next, node)),
               !.map = (Get(node, "id") :> st.next) @@ @,
               !.next = @ + 1]

RECURSIVE EachNode(_, _, _)
EachNode(st, nodes, i) ==
    IF i > Len(nodes) THEN st ELSE EachNode(ForNode(st, nodes[i]), nodes, i + 1)

RECURSIVE EachEdge(_, _, _, _)
EachEdge(st, nodes, edges, i) ==
    IF i > Len(edges) THEN st
    ELSE EachEdge(ForEdge(st, st.map, nodes, edges[i]), nodes, edges, i + 1)

\* generateTldrawShapes(layout, editor) when createShapeId() hands out next
\* first: the shapes created on the editor in order, the node-to-shape map
\* at the end of the call and the next unused shape id
generateTldrawShapes(layout, next) ==
    LET nodes == Get(layout, "nodes").v
        edges == Get(layout, "edges").v
        start == [kind |-> "return", created |-> <<>>, map |-> <<>>, next |-> next]
    IN  EachEdge(EachNode(start, nodes, 1), nodes, edges, 1)

----------------------------------------------------------------------------
(* The host: the chat hook, the panel effect that draws the diagram of the *)
(* last message, the canvas and the two test buttons of the page           *)

\* validateOpenAIConfig(): the key is set
validateOpenAIConfig(key) == key # ""

\* the three messages sendMessage appends
UserMsg(content) == [role |-> "user", content |-> content, diagramData |-> JUndefined]

AssistantMsg(content, diagramData) ==
    [ role |-> "assistant", content |-> content,
      diagramData |-> IF Truthy(diagramData) THEN diagramData ELSE JUndefined ]

ErrorMsg(errorMessage) ==
    [ role |-> "assistant",
      content |-> <<"Sorry, I encountered an error: ">> \o errorMessage,
      diagramData |-> JUndefined ]

\* what fetch settles with: a rejection, or a response with a status and a
\* JSON body
Rejection(message) == [kind |-> "reject", message |-> message]
Response(ok, body) == [kind |-> "response", ok |-> ok, body |-> body]

Completion(content) ==
    JObj(Key("choices") :> JArr(<<JObj(Key("message") :>
                                    JObj(Key("content") :> JStr(content)))>>))

ErrorBody(message) == JObj(Key("error") :> JObj(Key("message") :> JStr(message)))

\* data.choices[0]?.message?.content || ''
AssistantContent(data) ==
    LET choices == Get(data, "choices")
        content == IF choices.t = "array" /\ choices.v # <<>>
                   THEN Get(Get(choices.v[1], "message"), "content")
                   ELSE JUndefined
    IN  IF Truthy(content) THEN content.v ELSE <<>>

CaughtSilently(list, errorMessage) == list

\* catch: setError and the error message
Caught(list, errorMessage) == Append(list, ErrorMsg(errorMessage))

\* the rest of sendMessage once the fetch has settled: the messages and the
\* error after it, and what extractDiagramFromResponse returned
Settle(list, reply) ==
    IF reply.kind = "reject"
    THEN [messages |-> Caught(list, reply.message), error |-> reply.message,
          extracted |-> JNull]
    ELSE IF ~reply.ok
    THEN LET given == Get(Get(reply.body, "error"), "message")
             errorMessage == IF Truthy(given) THEN given.v
                             ELSE <<"Failed to get response from OpenAI">>
         IN  [messages |-> Caught(list, errorMessage), error |-> errorMessage,
              extracted |-> JNull]
    ELSE IF AccessThrows(Get(reply.body, "choices"))
    THEN [messages |-> Caught(list, <<"TypeError">>), error |-> <<"TypeError">>,
          extracted |-> JNull]
    ELSE LET assistantContent == AssistantContent(reply.body)
             diagramData == extractDiagramFromResponse(assistantContent).val
         IN  [messages |-> Append(list, AssistantMsg(assistantContent, diagramData)),
              error |-> <<>>, extracted |-> diagramData]

KeepIsLoading(loading) == loading

\* finally: setIsLoading(false)
Finally(loading) == FALSE

\* the replies of the service: two diagrams, no markers, a block that does
\* not parse, a block the validator rejects, an error status, and no answer
\* at all
firstDiagram == GraphObj(JArr(<<nodeA, nodeB>>), JArr(<<edgeAB>>))
secondDiagram == GraphObj(JArr(<<nodeD>>), JArr(<<>>))
rejectedDiagram == GraphObj(JArr(<<nodeA>>), JArr(<<edgeAZ>>))

Replies ==
    { Response(TRUE, Completion(Compose("block", <<"x">>, Stringify(firstDiagram, FALSE), <<>>))),
      Response(TRUE, Completion(Compose("spaced", <<>>, Stringify(secondDiagram, TRUE), <<"x">>))),
      Response(TRUE, Completion(<<"x">>)),
      Response(TRUE, Completion(Compose("block", <<>>, <<"{">>, <<>>))),
      Response(TRUE, Completion(Compose("block", <<>>, Stringify(rejectedDiagram, FALSE), <<>>))),
      Response(FALSE, ErrorBody(<<"quota">>)),
      Rejection(<<"Failed to fetch">>) }

\* what the user types
Typed == { <<" ">>, <<"draw">> }

\* mockFlowchart
mockFlowchart ==
    GraphObj(
        JArr(<< NodeObj(Str("1"), Str("Start"), Str("start")),
                NodeObj(Str("2"), Str("Process Data"), Str("process")),
                NodeObj(Str("3"), Str("Is Valid?"), Str("decision")),
                NodeObj(Str("4"), Str("Save"), Str("process")),
                NodeObj(Str("5"), Str("Error"), Str("end")),
                NodeObj(Str("6"), Str("Success"), Str("end")) >>),
        JArr(<< EdgeObj(Str("e1"), Str("1"), Str("2")),
                EdgeObj(Str("e2"), Str("2"), Str("3")),
                WithLabel(EdgeObj(Str("e3"), Str("3"), Str("4")), Str("Yes")),
                WithLabel(EdgeObj(Str("e4"), Str("3"), Str("5")), Str("No")),
                EdgeObj(Str("e5"), Str("4"), Str("6")) >>))

\* addTestShapes(editor): two boxes and an arrow between them
addTestShapes(next) ==
    << [ id |-> next, type |-> "geo", x |-> JNum(Px(100)), y |-> JNum(Px(100)),
         props |-> [ w |-> JNum(Px(200)), h |-> JNum(Px(100)), geo |-> "rectangle",
                     text |-> Str("Test Node"), fill |-> "solid", color |-> "blue" ] ],
       [ id |-> next + 1, type |-> "geo", x |-> JNum(Px(400)), y |-> JNum(Px(100)),
         props |-> [ w |-> JNum(Px(200)), h |-> JNum(Px(100)), geo |-> "rectangle",
                     text |-> Str("Test Node 2"), fill |-> "solid", color |-> "green" ] ],
       [ id |-> next + 2, type |-> "arrow", x |-> 0, y |-> 0,
         props |-> [ start |-> [x |-> Px(300), y |-> Px(150)],
                     end |-> [x |-> Px(400), y |-> Px(150)],
                     text |-> JStr(<<>>) ] ] >>

clearCanvasKeeping(onCanvas) == onCanvas

\* clearCanvas(editor): select all, delete the selection
clearCanvas(onCanvas) == <<>>

\* the shapes the calls after clearCanvas create for a model, in order;
\* none when getAutoLayout throws
Batch(graphModel, next) ==
    LET laid == getAutoLayout(graphModel, <<>>, EmptyGraph)
    IN  IF AccessThrows(graphModel) THEN <<>>
        ELSE IF laid.kind = "return" THEN generateTldrawShapes(laid.val, next).created
        ELSE <<>>

FirstDiagramMessage(list) ==
    IF \E i \in 1..Len(list) : Truthy(list[i].diagramData)
    THEN list[CHOOSE i \in 1..Len(list) :
                /\ Truthy(list[i].diagramData)
                /\ \A j \in 1..(i - 1) : ~Truthy(list[j].diagramData)]
    ELSE list[Len(list)]

\* messages[messages.length - 1]
LastMessage(list) == list[Len(list)]

DrawsLastDiagramFound(list, ready) ==
    ready /\ \E i \in 1..Len(list) : Truthy(list[i].diagramData)

\* lastMessage?.diagramData && editor
Draws(list, ready) ==
    ready /\ list # <<>> /\ Truthy(LastMessage(list).diagramData)

NotDrawing == [pc |-> "idle", by |-> "none"]

HostIdle ==
    /\ apiKey = ""
    /\ editorReady = FALSE
    /\ messages = <<>>
    /\ isLoading = FALSE
    /\ error = <<>>
    /\ turns = 0
    /\ inflight = {}
    /\ effectDue = FALSE
    /\ draw = NotDrawing
    /\ queue = <<>>
    /\ clicks = 0
    /\ lastEvent = "none"
    /\ before = <<>>
    /\ lastExtracted = JNull
    /\ log = <<>>


----------------------------------------------------------------------------
(* The validator as a program: one call on one input *)

NotCalled == [kind |-> "pending", val |-> JUndefined]
NotStripped == [kind |-> "pending", text |-> <<>>]
NotLaidOut == [kind |-> "pending", val |-> JUndefined, graph |-> EmptyGraph]

\* the parts of the state a program does not use
ParserIdle ==
    /\ raw = JUndefined
    /\ diagram = JUndefined
    /\ valid = "pending"
    /\ response = <<>>
    /\ model = JUndefined
    /\ extracted = NotCalled
    /\ stripped = NotStripped

LayoutIdle ==
    /\ givenModel = JUndefined
    /\ givenOptions = <<>>
    /\ graphArg = JUndefined
    /\ libraryGraph = EmptyGraph
    /\ layoutResult = NotLaidOut
    /\ firstResult = NotLaidOut
    /\ calls = 0
    /\ earlierAt = -1

NotRegenerated == [kind |-> "pending", created |-> <<>>]

ShapesIdle ==
    /\ givenLayout = JUndefined
    /\ shapes = <<>>
    /\ nodeShapeMap = <<>>
    /\ nextShapeId = 1
    /\ generated = "pending"
    /\ regenerated = NotRegenerated

Init ==
    /\ \/ raw \in NonGraphs
       \/ \E ns \in SeqsUpTo(NodeElements, MaxNodes), es \in SeqsUpTo(PlainEdges, MaxEdges) :
             raw = GraphObj(JArr(ns), JArr(es))
       \/ \E ns \in SeqsUpTo(PlainNodes, MaxNodes), es \in SeqsUpTo(EdgeElements, MaxEdges) :
             raw = GraphObj(JArr(ns), JArr(es))
    /\ diagram = raw
    /\ valid = "pending"
    /\ response = <<>>
    /\ model = JUndefined
    /\ extracted = NotCalled
    /\ stripped = NotStripped
    /\ LayoutIdle
    /\ ShapesIdle
    /\ HostIdle

ValidateDiagram ==
    /\ valid = "pending"
    /\ valid' = validateDiagram(diagram).ret
    /\ diagram' = validateDiagram(diagram).arg
    /\ UNCHANGED <<raw, response, model, extracted, stripped,
                   layoutVars, shapeVars, hostVars>>

Next == ValidateDiagram

Spec == Init /\ [][Next]_vars

----------------------------------------------------------------------------
(* The parser as a program: the two operations on one response *)

\* every shape and padding around a few bodies, and every model in a block
InitExtract ==
    /\ \/ \E shape \in Shapes, pre \in Pads, post \in Pads, m \in SampleModels :
             /\ response = Compose(shape, pre, Stringify(m, shape = "spaced"), post)
             /\ model = m
       \/ \E shape \in Shapes, pre \in Pads, post \in Pads, body \in BrokenBodies :
             /\ response = Compose(shape, pre, body, post)
             /\ model = JUndefined
       \/ \E shape \in {"block", "spaced"}, pad \in PlainPads, m \in ResponseModels :
             /\ response = Compose(shape, pad, Stringify(m, shape = "spaced"), pad)
             /\ model = m
    /\ raw = JUndefined
    /\ diagram = JUndefined
    /\ valid = "pending"
    /\ extracted = NotCalled
    /\ stripped = NotStripped
    /\ LayoutIdle
    /\ ShapesIdle
    /\ HostIdle

ExtractDiagramFromResponse ==
    /\ extracted = NotCalled
    /\ extracted' = extractDiagramFromResponse(response)
    /\ UNCHANGED <<raw, diagram, valid, response, model, stripped,
                   layoutVars, shapeVars, hostVars>>

StripDiagramMarkers ==
    /\ stripped = NotStripped
    /\ stripped' = [kind |-> "return", text |-> stripDiagramMarkers(response)]
    /\ UNCHANGED <<raw, diagram, valid, response, model, extracted,
                   layoutVars, shapeVars, hostVars>>

NextExtract == ExtractDiagramFromResponse \/ StripDiagramMarkers

SpecExtract == InitExtract /\ [][NextExtract]_vars

----------------------------------------------------------------------------
(* The layout engine as a program: calls of getAutoLayout on one input,    *)
(* with calls on other inputs in between                                   *)

\* a model and its edges as the validator accepts them
ValidatedModel(ns, es) ==
    validateDiagram(GraphObj(JArr(ns), JArr(es))).ret = "true"

InitLayout ==
    /\ \/ \E ns \in Picks(LayoutNodePool, MaxLayoutNodes),
             es \in Picks(LayoutEdgePool, MaxLayoutEdges) :
                /\ ValidatedModel(ns, es)
                /\ givenModel = GraphObj(JArr(ns), JArr(es))
                /\ givenOptions \in PlainOptions
       \/ /\ givenModel \in SampleLayoutModels
          /\ givenOptions \in LayoutOptionsSet
    /\ graphArg = givenModel
    /\ libraryGraph = EmptyGraph
    /\ layoutResult = NotLaidOut
    /\ firstResult = NotLaidOut
    /\ calls = 0
    /\ earlierAt = -1
    /\ ParserIdle
    /\ ShapesIdle
    /\ HostIdle

GetAutoLayout ==
    /\ calls < MaxCalls
    /\ LET call == getAutoLayout(givenModel, givenOptions, libraryGraph)
           outcome == [kind |-> call.kind, val |-> call.val, graph |-> call.graph]
       IN  /\ layoutResult' = outcome
           /\ firstResult' = IF calls = 0 THEN outcome ELSE firstResult
           /\ graphArg' = call.arg
           /\ libraryGraph' = call.graph
    /\ calls' = calls + 1
    /\ UNCHANGED <<givenModel, givenOptions, earlierAt, parserVars, shapeVars, hostVars>>

\* a call on another model leaves only its library graph behind
GetAutoLayoutEarlier ==
    /\ earlierAt # calls
    /\ \E m \in EarlierModels : libraryGraph' = getAutoLayout(m, <<>>, libraryGraph).graph
    /\ earlierAt' = calls
    /\ UNCHANGED <<givenModel, givenOptions, graphArg, layoutResult, firstResult, calls,
                   parserVars, shapeVars, hostVars>>

NextLayout == GetAutoLayout \/ GetAutoLayoutEarlier

SpecLayout == InitLayout /\ [][NextLayout]_vars

----------------------------------------------------------------------------
(* The shape synthesizer as a program: one call on one LayoutResult *)

\* the edges of a LayoutResult built by hand need not name nodes of it
edgeZB == EdgeObj(Str("e7"), Str("z"), Str("b"))
ShapeEdgePool == <<edgeAB, edgeBA, edgeAZ, edgeZB, edgeAC>>
ShapeNodePool == <<nodeA, nodeB, nodeC, nodeD, nodeA2, nodeE>>

Resolvable(ns, es) ==
    SelectSeq(es, LAMBDA e : SourceExists(ns, e) /\ TargetExists(ns, e))

\* the nodes as getAutoLayout places them under the options, with the edges
\* as given
DirectLayout(ns, es, opts) ==
    LayoutResult(
        Get(getAutoLayout(GraphObj(JArr(ns), JArr(Resolvable(ns, es))), opts, EmptyGraph).val,
            "nodes").v,
        JArr(es))

\* every layout of the pools under the default options, and the sample
\* models under every direction; givenOptions keeps the options the layout
\* was produced with
InitShapes ==
    /\ \/ /\ givenOptions = <<>>
          /\ \E ns \in Picks(ShapeNodePool, MaxLayoutNodes),
                es \in Picks(ShapeEdgePool, MaxLayoutEdges) :
                   givenLayout = DirectLayout(ns, es, givenOptions)
       \/ /\ givenOptions \in { [rankdir |-> d] : d \in Directions }
          /\ \E m \in SampleLayoutModels :
                givenLayout = DirectLayout(Get(m, "nodes").v, Get(m, "edges").v, givenOptions)
    /\ shapes = <<>>
    /\ nodeShapeMap = <<>>
    /\ nextShapeId = 1
    /\ generated = "pending"
    /\ regenerated = NotRegenerated
    /\ ParserIdle
    /\ givenModel = JUndefined
    /\ graphArg = JUndefined
    /\ libraryGraph = EmptyGraph
    /\ layoutResult = NotLaidOut
    /\ firstResult = NotLaidOut
    /\ calls = 0
    /\ earlierAt = -1
    /\ HostIdle

GenerateTldrawShapes ==
    /\ generated = "pending"
    /\ LET call == generateTldrawShapes(givenLayout, nextShapeId)
       IN  /\ generated' = call.kind
           /\ shapes' = shapes \o call.created
           /\ nodeShapeMap' = call.map
           /\ nextShapeId' = call.next
    /\ UNCHANGED <<givenLayout, regenerated, parserVars, layoutVars, hostVars>>

\* a second call on the same LayoutResult and the same editor: createShapeId()
\* goes on from where the first call left it, and the map of the first call
\* is gone with that call
GenerateTldrawShapesAgain ==
    /\ generated = "return"
    /\ regenerated = NotRegenerated
    /\ LET call == generateTldrawShapes(givenLayout, nextShapeId)
       IN  /\ regenerated' = [kind |-> call.kind, created |-> call.created]
           /\ nextShapeId' = call.next
    /\ UNCHANGED <<givenLayout, shapes, nodeShapeMap, generated, parserVars, layoutVars,
                   hostVars>>

NextShapes == GenerateTldrawShapes \/ GenerateTldrawShapesAgain

SpecShapes == InitShapes /\ [][NextShapes]_vars

----------------------------------------------------------------------------
(* The host as a program: turns, the effect, the buttons *)

InitHost ==
    /\ apiKey \in {"", "sk"}
    /\ editorReady = FALSE
    /\ messages = <<>>
    /\ isLoading = FALSE
    /\ error = <<>>
    /\ turns = 0
    /\ inflight = {}
    /\ effectDue = TRUE
    /\ draw = NotDrawing
    /\ queue = <<>>
    /\ clicks = 0
    /\ lastEvent = "none"
    /\ before = <<>>
    /\ lastExtracted = JNull
    /\ log = <<>>
    /\ ParserIdle
    /\ LayoutIdle
    /\ ShapesIdle

historyVars == <<lastEvent, before, lastExtracted, log>>

\* nothing else runs while an effect is due or a handler is drawing
Quiet == ~effectDue /\ draw = NotDrawing

\* onMount of the canvas: setEditor
EditorMount ==
    /\ Quiet
    /\ ~editorReady
    /\ editorReady' = TRUE
    /\ effectDue' = TRUE
    /\ lastEvent' = "mount"
    /\ before' = shapes
    /\ UNCHANGED <<apiKey, messages, isLoading, error, turns, inflight, draw, queue,
                   clicks, lastExtracted, log, shapes, nextShapeId>>

\* sendMessage(userMessage): the two guards, then the user message and the
\* request
SendMessage(userMessage) ==
    /\ IF ~validateOpenAIConfig(apiKey)
       THEN /\ error' = <<"OpenAI API key not configured">>
            /\ lastEvent' = "refused"
            /\ before' = shapes
            /\ UNCHANGED <<messages, isLoading, turns, inflight, effectDue, log>>
       ELSE IF Trim(userMessage) = <<>>
       THEN /\ lastEvent' = "refused"
            /\ before' = shapes
            /\ UNCHANGED <<error, messages, isLoading, turns, inflight, effectDue, log>>
       ELSE /\ turns < MaxTurns
            /\ isLoading' = TRUE
            /\ error' = <<>>
            /\ messages' = Append(messages, UserMsg(userMessage))
            /\ log' = Append(log, [turn |-> turns + 1, role |-> "user"])
            /\ turns' = turns + 1
            /\ inflight' = inflight \cup {turns + 1}
            /\ effectDue' = TRUE
            /\ lastEvent' = "send"
            /\ before' = shapes
    /\ UNCHANGED <<apiKey, editorReady, draw, queue, clicks, lastExtracted, shapes,
                   nextShapeId>>

\* the input of the panel: disabled without an editor, and while a request
\* is loading
ChatInputEnabled == editorReady /\ ~isLoading

ChatInputSend ==
    /\ Quiet
    /\ ChatInputEnabled
    /\ \E userMessage \in Typed : SendMessage(userMessage)

\* a caller of the hook that does not look at isLoading
DirectSend ==
    /\ Quiet
    /\ editorReady
    /\ \E userMessage \in Typed : SendMessage(userMessage)

\* the fetch of a turn settles: the rest of sendMessage
Settled ==
    /\ Quiet
    /\ \E t \in inflight, reply \in Replies :
          LET after == Settle(messages, reply)
          IN  /\ messages' = after.messages
              /\ error' = after.error
              /\ log' = IF Len(after.messages) > Len(messages)
                        THEN Append(log, [turn |-> t, role |-> LastMessage(after.messages).role])
                        ELSE log
              /\ lastExtracted' = IF Truthy(after.extracted) THEN after.extracted
                                  ELSE lastExtracted
              /\ effectDue' = (after.messages # messages)
              /\ inflight' = inflight \ {t}
    /\ isLoading' = Finally(isLoading)
    /\ lastEvent' = "response"
    /\ before' = shapes
    /\ UNCHANGED <<apiKey, editorReady, turns, draw, queue, clicks, shapes,
                   nextShapeId>>

\* clearMessages
ClearMessages ==
    /\ Quiet
    /\ messages # <<>>
    /\ clicks < MaxClicks
    /\ clicks' = clicks + 1
    /\ messages' = <<>>
    /\ error' = <<>>
    /\ effectDue' = TRUE
    /\ lastEvent' = "clear"
    /\ before' = shapes
    /\ UNCHANGED <<apiKey, editorReady, isLoading, turns, inflight, draw, queue,
                   lastExtracted, log, shapes, nextShapeId>>

\* the effect of the panel on [messages, editor], up to its condition
EffectRuns ==
    /\ effectDue
    /\ draw = NotDrawing
    /\ effectDue' = FALSE
    /\ draw' = IF Draws(messages, editorReady) THEN [pc |-> "clear", by |-> "effect"]
               ELSE NotDrawing
    /\ UNCHANGED <<apiKey, editorReady, messages, isLoading, error, turns, inflight, queue,
                   clicks, historyVars, shapes, nextShapeId>>

\* handleGenerateGraph, up to clearCanvas
HandleGenerateGraph ==
    /\ Quiet
    /\ editorReady
    /\ clicks < MaxClicks
    /\ clicks' = clicks + 1
    /\ draw' = [pc |-> "clear", by |-> "graph"]
    /\ lastEvent' = "graph"
    /\ before' = shapes
    /\ UNCHANGED <<apiKey, editorReady, messages, isLoading, error, turns, inflight,
                   effectDue, queue, lastExtracted, log, shapes, nextShapeId>>

\* handleAddTestShapes, up to the first createShape
HandleAddTestShapes ==
    /\ Quiet
    /\ editorReady
    /\ clicks < MaxClicks
    /\ clicks' = clicks + 1
    /\ draw' = [pc |-> "create", by |-> "test"]
    /\ queue' = addTestShapes(nextShapeId)
    /\ lastEvent' = "test"
    /\ before' = shapes
    /\ UNCHANGED <<apiKey, editorReady, messages, isLoading, error, turns, inflight,
                   effectDue, lastExtracted, log, shapes, nextShapeId>>

\* clearCanvas(editor), then the layout and the shapes to create
ClearCanvas ==
    /\ draw.pc = "clear"
    /\ shapes' = clearCanvas(shapes)
    /\ draw' = [draw EXCEPT !.pc = "create"]
    /\ queue' = Batch(IF draw.by = "effect" THEN LastMessage(messages).diagramData
                      ELSE mockFlowchart,
                      nextShapeId)
    /\ UNCHANGED <<apiKey, editorReady, messages, isLoading, error, turns, inflight,
                   effectDue, clicks, historyVars, nextShapeId>>

\* one editor.createShape
CreateShape ==
    /\ draw.pc = "create"
    /\ queue # <<>>
    /\ shapes' = Append(shapes, Head(queue))
    /\ nextShapeId' = Head(queue).id + 1
    /\ queue' = Tail(queue)
    /\ UNCHANGED <<apiKey, editorReady, messages, isLoading, error, turns, inflight,
                   effectDue, draw, clicks, historyVars>>

\* editor.zoomToFit(): the handler or the effect is over
ZoomToFit ==
    /\ draw.pc = "create"
    /\ queue = <<>>
    /\ draw' = NotDrawing
    /\ UNCHANGED <<apiKey, editorReady, messages, isLoading, error, turns, inflight,
                   effectDue, queue, clicks, historyVars, shapes, nextShapeId>>

Drawing == EffectRuns \/ ClearCanvas \/ CreateShape \/ ZoomToFit

Buttons == HandleGenerateGraph \/ HandleAddTestShapes \/ ClearMessages

idleVars == <<parserVars, layoutVars, givenLayout, nodeShapeMap, generated, regenerated>>

NextHost ==
    (EditorMount \/ ChatInputSend \/ Settled \/ Drawing \/ Buttons) /\ UNCHANGED idleVars

SpecHost == InitHost /\ [][NextHost]_vars

\* the step of ClearCanvas as draw shows it
Cleared == draw.pc = "clear" /\ draw' = [draw EXCEPT !.pc = "create"]

\* every fetch settles, and an effect or a handler that began runs to its end
SpecHostFair ==
    /\ SpecHost
    /\ WF_vars(Settled /\ UNCHANGED idleVars)
    /\ WF_vars((EffectRuns \/ CreateShape \/ ZoomToFit) /\ UNCHANGED idleVars)
    /\ WF_draw(Cleared)

\* the turns alone, without the buttons
NextHook ==
    (EditorMount \/ DirectSend \/ Settled \/ Drawing) /\ UNCHANGED idleVars

SpecHook == InitHost /\ [][NextHook]_vars

----------------------------------------------------------------------------
(* What the claims speak of, stated on the values themselves *)

Has(x, k) == x.t = "object" /\ Key(k) \in DOMAIN x.v

IsGraph(d) ==
    /\ Has(d, "nodes") /\ d.v[Key("nodes")].t = "array"
    /\ Has(d, "edges") /\ d.v[Key("edges")].t = "array"

NodesOf(d) == d.v[Key("nodes")].v
EdgesOf(d) == d.v[Key("edges")].v

\* the ids carried by the elements of the nodes array
NodeIds(d) ==
    { NodesOf(d)[i].v[Key("id")] : i \in { n \in 1..Len(NodesOf(d)) : Has(NodesOf(d)[n], "id") } }

TypeNames == {"start", "process", "decision", "data", "end", "default"}

TypeInEnumeration(x) == x.t = "string" /\ Len(x.v) = 1 /\ x.v[1] \in TypeNames

NonEmptyString(x) == x.t = "string" /\ x.v # <<>>

\* an edge of d names, as source or as target, something that is no node id of d
HasDanglingEdge(d) ==
    /\ IsGraph(d)
    /\ \E i \in 1..Len(EdgesOf(d)) :
          \/ Has(EdgesOf(d)[i], "source") /\ EdgesOf(d)[i].v[Key("source")] \notin NodeIds(d)
          \/ Has(EdgesOf(d)[i], "target") /\ EdgesOf(d)[i].v[Key("target")] \notin NodeIds(d)

\* the shapes the validator is documented to reject
Malformed(d) ==
    \/ d.t # "object"
    \/ ~IsGraph(d)
    \/ \E i \in 1..Len(NodesOf(d)) :
          \/ ~Has(NodesOf(d)[i], "id")
          \/ ~Has(NodesOf(d)[i], "label")
          \/ ~Has(NodesOf(d)[i], "type")
          \/ ~TypeInEnumeration(NodesOf(d)[i].v[Key("type")])
    \/ \E i \in 1..Len(EdgesOf(d)) :
          \/ ~Has(EdgesOf(d)[i], "id")
          \/ ~Has(EdgesOf(d)[i], "source")
          \/ ~Has(EdgesOf(d)[i], "target")

\* a graph whose nodes carry a non-empty id and label and a type of the
\* enumeration, and whose edges carry a non-empty id and name two nodes
StructurallyValid(d) ==
    /\ IsGraph(d)
    /\ \A i \in 1..Len(NodesOf(d)) :
          /\ Has(NodesOf(d)[i], "id") /\ NonEmptyString(NodesOf(d)[i].v[Key("id")])
          /\ Has(NodesOf(d)[i], "label") /\ NonEmptyString(NodesOf(d)[i].v[Key("label")])
          /\ Has(NodesOf(d)[i], "type") /\ TypeInEnumeration(NodesOf(d)[i].v[Key("type")])
    /\ \A i \in 1..Len(EdgesOf(d)) :
          /\ Has(EdgesOf(d)[i], "id") /\ NonEmptyString(EdgesOf(d)[i].v[Key("id")])
          /\ Has(EdgesOf(d)[i], "source") /\ NonEmptyString(EdgesOf(d)[i].v[Key("source")])
          /\ Has(EdgesOf(d)[i], "target") /\ NonEmptyString(EdgesOf(d)[i].v[Key("target")])
          /\ EdgesOf(d)[i].v[Key("source")] \in NodeIds(d)
          /\ EdgesOf(d)[i].v[Key("target")] \in NodeIds(d)

\* the elements of an array of objects carry pairwise distinct ids
IdsDistinct(elements) ==
    \A i, j \in 1..Len(elements) :
        i # j => elements[i].v[Key("id")] # elements[j].v[Key("id")]

Occurs(text, marker) == \E i \in 1..Len(text) : text[i] = marker[1]

FirstOccurrence(text, marker, i) ==
    /\ i \in 1..Len(text)
    /\ text[i] = marker[1]
    /\ \A k \in 1..(i - 1) : text[k] # marker[1]

MarkerFree(text) == ~Occurs(text, startMarker) /\ ~Occurs(text, endMarker)

\* text is a marker-free prefix, the start marker, a serialization of m, the
\* end marker and a marker-free suffix
IsRoundTripText(text, m) ==
    \E pretty \in BOOLEAN, gap \in {<<>>, <<"\n">>} :
        LET block == startMarker \o gap \o Stringify(m, pretty) \o gap \o endMarker
            at == CHOOSE i \in 1..Len(text) : FirstOccurrence(text, startMarker, i)
        IN  /\ Occurs(text, startMarker)
            /\ MarkerFree(SubSeq(text, 1, at - 1))
            /\ at + Len(block) - 1 <= Len(text)
            /\ SubSeq(text, at, at + Len(block) - 1) = block
            /\ MarkerFree(SubSeq(text, at + Len(block), Len(text)))

\* text with every delimited block replaced by the placeholder.  Position k
\* lies in a delimited block when a start marker at or before k has no end
\* marker between itself and k and has one at or after k; a block opens at a
\* start marker that lies in a block and follows a position outside of every
\* block or the end marker of the block before.
Display(text) ==
    LET starts == { i \in 1..Len(text) : text[i] = startMarker[1] }
        ends == { j \in 1..Len(text) : text[j] = endMarker[1] }
        Covered(k) ==
            \E i \in starts :
                /\ i <= k
                /\ \A j \in ends : ~(i < j /\ j < k)
                /\ \E j \in ends : j >= k /\ j > i
        OpensBlock(k) ==
            /\ k \in starts
            /\ Covered(k)
            /\ k = 1 \/ ~Covered(k - 1) \/ (k - 1) \in ends
        Keep(p) == ~Covered(p[1]) \/ OpensBlock(p[1])
        kept == SelectSeq([k \in 1..Len(text) |-> <<k, text[k]>>], Keep)
    IN  [n \in 1..Len(kept) |->
            IF Covered(kept[n][1]) THEN placeholder[1] ELSE kept[n][2]]

\* text without its leading and trailing whitespace
Trimmed(text) ==
    LET solid == { k \in 1..Len(text) : text[k] \notin Whitespace }
    IN  IF solid = {} THEN <<>>
        ELSE SubSeq(text, CHOOSE k \in solid : \A m \in solid : k <= m,
                          CHOOSE k \in solid : \A m \in solid : k >= m)

----------------------------------------------------------------------------
(* Claims about validateDiagram, under Spec *)

\* C1: whenever some edge of the input names a source or a target that is no
\* node id of the same input, validateDiagram returns false and leaves the
\* input as it was.
C1_DanglingEdgeReturnsFalse ==
    (valid # "pending" /\ HasDanglingEdge(raw)) => (valid = "false" /\ diagram = raw)

\* C2: validateDiagram returns false for every input that is not an object,
\* whose nodes or edges is not an array, one of whose nodes lacks id, label
\* or type or has a type outside the enumeration, or one of whose edges lacks
\* id, source or target.
C2_MalformedReturnsFalse ==
    (valid # "pending" /\ Malformed(raw)) => valid = "false"

C4_ValidateNeverThrows == valid \in {"pending", "true", "false"}

\* C5: an accepted model has pairwise distinct node ids and pairwise distinct
\* edge ids.
C5_AcceptedIdsUnique ==
    valid = "true" => (IdsDistinct(NodesOf(raw)) /\ IdsDistinct(EdgesOf(raw)))

----------------------------------------------------------------------------
(* Claims about extractDiagramFromResponse and stripDiagramMarkers, under  *)
(* SpecExtract                                                             *)

\* C6: when the start marker or the end marker does not occur in the
\* response, extractDiagramFromResponse returns null.
C6_MissingMarkerYieldsNull ==
    (extracted # NotCalled /\ (~Occurs(response, startMarker) \/ ~Occurs(response, endMarker)))
        => extracted = Return(JNull)

C6_Witness ==
    /\ extracted = Return(JNull)
    /\ Occurs(response, endMarker)
    /\ ~Occurs(response, startMarker)
    /\ StructurallyValid(model)

\* C7: extractDiagramFromResponse never lets an exception out; when its try
\* block throws (the text does not parse, or validation itself raises) it
\* returns null.
C7_NeverPropagates ==
    /\ extracted.kind # "throw"
    /\ (extracted # NotCalled /\ TryBlock(response).kind = "throw")
            => extracted = Return(JNull)

C7_Witness ==
    /\ extracted = Return(JNull)
    /\ \E i, j \in 1..Len(response) :
          /\ FirstOccurrence(response, startMarker, i)
          /\ FirstOccurrence(response, endMarker, j)
          /\ i < j
          /\ JSONParse(SubSeq(response, i + 1, j - 1)).ok
          /\ validateDiagram(JSONParse(SubSeq(response, i + 1, j - 1)).val).ret = "TypeError"

\* C8: a non-null result is the parse of the text strictly between the first
\* start marker and the first end marker, and validateDiagram accepts it.
C8_ResultParsedBetweenMarkersAndValid ==
    (extracted.kind = "return" /\ extracted.val # JNull) =>
        \E i, j \in 1..Len(response) :
            /\ FirstOccurrence(response, startMarker, i)
            /\ FirstOccurrence(response, endMarker, j)
            /\ i < j
            /\ JSONParse(SubSeq(response, i + 1, j - 1)).ok
            /\ JSONParse(SubSeq(response, i + 1, j - 1)).val = extracted.val
            /\ validateDiagram(extracted.val).ret = "true"
            /\ StructurallyValid(extracted.val)

C8_Witness ==
    /\ extracted.kind = "return"
    /\ extracted.val # JNull
    /\ response[1] = "x"
    /\ response[Len(response)] = "x"

\* C9 as claimed: for any valid model M, a marker-free prefix, the start
\* marker, the serialization of M, the end marker and a marker-free suffix
\* extract to M.
C9_RoundTripAnyModel ==
    (extracted # NotCalled /\ StructurallyValid(model) /\ IsRoundTripText(response, model))
        => extracted = Return(model)

\* C9 as amended: the same for any valid model M whose serialization does
\* not contain the end marker.
C9_RoundTripMarkerFreeModel ==
    ( /\ extracted # NotCalled
      /\ StructurallyValid(model)
      /\ ~Occurs(Stringify(model, FALSE), endMarker)
      /\ IsRoundTripText(response, model) )
        => extracted = Return(model)

C9_Witness ==
    /\ extracted = Return(model)
    /\ model = GraphObj(JArr(<<nodeA, nodeB>>), JArr(<<edgeAB>>))
    /\ IsRoundTripText(response, model)
    /\ Len(NodesOf(extracted.val)) = 2
    /\ Len(EdgesOf(extracted.val)) = 1

\* C10: stripDiagramMarkers returns the response with every delimited block,
\* markers included, replaced by the placeholder, the rest kept, and the
\* whole trimmed; a response without markers comes back trimmed only.
C10_StripReplacesBlocks ==
    stripped # NotStripped =>
        /\ stripped.text = Trimmed(Display(response))
        /\ (~Occurs(response, startMarker) /\ ~Occurs(response, endMarker))
                => stripped.text = Trimmed(response)

C10_Witness ==
    /\ stripped # NotStripped
    /\ \E i, j \in 1..Len(stripped.text) :
          /\ i < j
          /\ stripped.text[i] = placeholder[1]
          /\ stripped.text[j] = "x"
          /\ \E k \in (j + 1)..Len(stripped.text) : stripped.text[k] = placeholder[1]

----------------------------------------------------------------------------
(* What the claims on the layout engine speak of *)

\* getAutoLayout has returned on givenModel
Laid == calls >= 1 /\ layoutResult.kind = "return"

Positioned == NodesOf(layoutResult.val)

\* the rank the engine gave the node of a positioned node
RankAt(i) == layoutResult.graph.label[Get(Positioned[i], "id").v].rank

\* the center the engine computed for the node of a positioned node
CenterAt(i) == layoutResult.graph.label[Get(Positioned[i], "id").v]

Configured == Destructure(givenOptions)

RanksSideways == Configured.rankdir \in {"LR", "RL"}

\* the extent of a positioned node along an axis: [lo, hi]
ExtentX(n) == [lo |-> Get(n, "x").v, hi |-> Get(n, "x").v + Get(n, "width").v]
ExtentY(n) == [lo |-> Get(n, "y").v, hi |-> Get(n, "y").v + Get(n, "height").v]
AcrossExtent(n) == IF RanksSideways THEN ExtentY(n) ELSE ExtentX(n)

\* two extents with at least gap between them
Apart(e, f, gap) == f.lo >= e.hi + gap \/ e.lo >= f.hi + gap

\* two extents that share more than a border
Overlapping(e, f) == e.lo < f.hi /\ f.lo < e.hi

\* the ids of the model, and the ids joined to v by edges in any direction
IdsOfModel == { Get(NodesOf(givenModel)[i], "id").v : i \in 1..Len(NodesOf(givenModel)) }

Joined(v, w) ==
    \E i \in 1..Len(EdgesOf(givenModel)) :
        LET e == EdgesOf(givenModel)[i]
        IN  {Get(e, "source").v, Get(e, "target").v} = {v, w}

RECURSIVE Spread(_)
Spread(S) ==
    LET more == S \cup { w \in IdsOfModel : \E v \in S : Joined(v, w) }
    IN  IF more = S THEN S ELSE Spread(more)

ComponentOf(v) == Spread({v})

Components == { ComponentOf(v) : v \in IdsOfModel }

\* the positioned nodes whose id lies in a component
BoxesOf(C) == { Positioned[i] : i \in { k \in 1..Len(Positioned) : Get(Positioned[k], "id").v \in C } }

SetMin(S) == CHOOSE m \in S : \A n \in S : m <= n

BoundingX(C) == [lo |-> SetMin({ ExtentX(n).lo : n \in BoxesOf(C) }),
                 hi |-> SetMax({ ExtentX(n).hi : n \in BoxesOf(C) })]
BoundingY(C) == [lo |-> SetMin({ ExtentY(n).lo : n \in BoxesOf(C) }),
                 hi |-> SetMax({ ExtentY(n).hi : n \in BoxesOf(C) })]

HasCycle == \E v, w \in IdsOfModel :
    /\ v # w
    /\ \E i, j \in 1..Len(EdgesOf(givenModel)) :
          /\ Get(EdgesOf(givenModel)[i], "source").v = v
          /\ Get(EdgesOf(givenModel)[i], "target").v = w
          /\ Get(EdgesOf(givenModel)[j], "source").v = w
          /\ Get(EdgesOf(givenModel)[j], "target").v = v

----------------------------------------------------------------------------
(* Claims on the layout engine *)

\* C11: two calls of getAutoLayout with the same model and the same options
\* return the same result, whatever was laid out before or in between.
C11_LayoutDeterministic ==
    calls >= 2 =>
        /\ layoutResult.kind = firstResult.kind
        /\ layoutResult.val = firstResult.val

C11_Witness ==
    /\ calls = 2
    /\ earlierAt = 1
    /\ layoutResult.kind = "return"
    /\ layoutResult.val = firstResult.val
    /\ Len(Positioned) >= 2
    /\ <<"a">> \in IdsOfModel

\* C12: in the result of getAutoLayout on any validated model, two distinct
\* positioned nodes of one rank have extents along the perpendicular axis
\* that are disjoint and at least nodesep apart.
C12_NoOverlapAtRank ==
    Laid =>
        \A i, j \in 1..Len(Positioned) :
            (i # j /\ RankAt(i) = RankAt(j)) =>
                Apart(AcrossExtent(Positioned[i]), AcrossExtent(Positioned[j]),
                      Configured.nodesep)

\* C13: on every validated model, with cycles, loops and parallel edges,
\* getAutoLayout returns, and every node has a rank and coordinates that
\* are finite numbers.
C13_LayoutTerminates ==
    calls >= 1 =>
        /\ layoutResult.kind = "return"
        /\ \A i \in 1..Len(Positioned) :
              /\ RankAt(i) \in 0..(Len(Positioned) - 1)
              /\ Get(Positioned[i], "x").t = "number" /\ Get(Positioned[i], "x").v \in Int
              /\ Get(Positioned[i], "y").t = "number" /\ Get(Positioned[i], "y").v \in Int

C13_Witness ==
    /\ Laid
    /\ HasCycle
    /\ \E i, j \in 1..Len(Positioned) : RankAt(i) = 0 /\ RankAt(j) = 1

C15_EmptyAndSingleton ==
    calls >= 1 =>
        /\ (NodesOf(givenModel) = <<>> /\ EdgesOf(givenModel) = <<>>)
              => /\ layoutResult.kind = "return"
                 /\ IsGraph(layoutResult.val)
                 /\ NodesOf(layoutResult.val) = <<>>
                 /\ EdgesOf(layoutResult.val) = <<>>
        /\ (Len(NodesOf(givenModel)) = 1 /\ EdgesOf(givenModel) = <<>>)
              => /\ layoutResult.kind = "return"
                 /\ IsGraph(layoutResult.val)
                 /\ Len(Positioned) = 1
                 /\ Get(Positioned[1], "id") = Get(NodesOf(givenModel)[1], "id")
                 /\ RankAt(1) = 0
                 /\ Get(Positioned[1], "x") = JNum(0)
                 /\ Get(Positioned[1], "y") = JNum(0)

C15_Witness ==
    /\ Laid
    /\ Len(NodesOf(givenModel)) = 1
    /\ EdgesOf(givenModel) = <<>>
    /\ Len(Positioned) = 1
    /\ RankAt(1) = 0

AddedKeys == {Key("x"), Key("y"), Key("width"), Key("height")}

\* C16: getAutoLayout leaves its argument as it was, returns the edges of the
\* model as they are, and returns one positioned node per node of the model,
\* in order, with the node's id, label, type and metadata and nothing more
\* than x, y, width and height added.
C16_InputKeptAndNodesExtended ==
    Laid =>
        /\ graphArg = givenModel
        /\ Get(layoutResult.val, "edges") = Get(givenModel, "edges")
        /\ Len(Positioned) = Len(NodesOf(givenModel))
        /\ \A i \in 1..Len(Positioned) :
              /\ \A k \in {"id", "label", "type", "metadata"} :
                    Get(Positioned[i], k) = Get(NodesOf(givenModel)[i], k)
              /\ DOMAIN Positioned[i].v = DOMAIN NodesOf(givenModel)[i].v \cup AddedKeys

C16_Witness ==
    /\ Laid
    /\ Len(EdgesOf(layoutResult.val)) = 2
    /\ \E i, j \in 1..Len(Positioned) :
          /\ i < j
          /\ Has(Positioned[i], "metadata")
          /\ ~Has(Positioned[j], "metadata")

\* C17: for every positioned node, x + width / 2 and y + height / 2 are the
\* center the engine computed for the node, and width and height are the
\* configured nodeWidth and nodeHeight, whatever the direction and the size.
C17_TopLeftFromCenter ==
    Laid =>
        \A i \in 1..Len(Positioned) :
            /\ Get(Positioned[i], "width") = JNum(Configured.nodeWidth)
            /\ Get(Positioned[i], "height") = JNum(Configured.nodeHeight)
            /\ Get(Positioned[i], "x").v + Half(Configured.nodeWidth) = CenterAt(i).x
            /\ Get(Positioned[i], "y").v + Half(Configured.nodeHeight) = CenterAt(i).y
            /\ Get(Positioned[i], "x").v = CenterAt(i).x - Half(Configured.nodeWidth)
            /\ Get(Positioned[i], "y").v = CenterAt(i).y - Half(Configured.nodeHeight)

C17_Witness ==
    /\ Laid
    /\ Configured.rankdir = "RL"
    /\ Configured.nodeWidth = Px(7)
    /\ \E i, j \in 1..Len(Positioned) :
          /\ CenterAt(i).x # CenterAt(j).x
          /\ CenterAt(i).y # CenterAt(j).y

\* the ids an edge of the model leads to from v, loops aside
Targets(v) ==
    { Get(EdgesOf(givenModel)[i], "target").v :
        i \in { k \in 1..Len(EdgesOf(givenModel)) :
                  /\ Get(EdgesOf(givenModel)[k], "source").v = v
                  /\ Get(EdgesOf(givenModel)[k], "target").v # v } }

RECURSIVE Downstream(_)
Downstream(S) ==
    LET more == S \cup UNION { Targets(v) : v \in S }
    IN  IF more = S THEN S ELSE Downstream(more)

\* no node is reached from itself along edges between distinct nodes
Acyclic == \A v \in IdsOfModel : v \notin Downstream(Targets(v))

\* the box t lies beyond the box s along the rank axis, in the direction of
\* the layout, with the rank spacing between them
Beyond(s, t) ==
    CASE Configured.rankdir = "TB" ->
            Get(t, "y").v >= Get(s, "y").v + Configured.nodeHeight + Configured.ranksep
      [] Configured.rankdir = "BT" ->
            Get(s, "y").v >= Get(t, "y").v + Configured.nodeHeight + Configured.ranksep
      [] Configured.rankdir = "LR" ->
            Get(t, "x").v >= Get(s, "x").v + Configured.nodeWidth + Configured.ranksep
      [] Configured.rankdir = "RL" ->
            Get(s, "x").v >= Get(t, "x").v + Configured.nodeWidth + Configured.ranksep

\* the pairs of positioned nodes that an edge between distinct ids joins
EdgePairs ==
    { <<i, j>> \in (1..Len(Positioned)) \X (1..Len(Positioned)) :
        \E k \in 1..Len(EdgesOf(givenModel)) :
            /\ Get(EdgesOf(givenModel)[k], "source") = Get(Positioned[i], "id")
            /\ Get(EdgesOf(givenModel)[k], "target") = Get(Positioned[j], "id")
            /\ Get(Positioned[i], "id") # Get(Positioned[j], "id") }

\* C29: in the layout of an acyclic model, for every edge between distinct
\* nodes the target lies beyond the source along the rank axis by at least
\* the node extent plus the rank spacing, in the direction of the layout.
C29_RanksIncreaseAlongEdges ==
    (Laid /\ Acyclic) => \A p \in EdgePairs : Beyond(Positioned[p[1]], Positioned[p[2]])

C29_Witness ==
    /\ Laid
    /\ Acyclic
    /\ Configured.rankdir = "RL"
    /\ Cardinality(EdgePairs) >= 2


----------------------------------------------------------------------------
(* Claims on the shape synthesizer *)

LayoutNodes == NodesOf(givenLayout)
LayoutEdges == EdgesOf(givenLayout)

GeoShapes == SelectSeq(shapes, LAMBDA s : s.type = "geo")
ArrowShapes == SelectSeq(shapes, LAMBDA s : s.type = "arrow")

\* the shape kind the claim gives a node type
KindClaimed(type) ==
    CASE type = Str("decision") -> "diamond"
      [] type \in {Str("start"), Str("end")} -> "ellipse"
      [] type = Str("data") -> "trapezoid"
      [] type \in {Str("process"), Str("default")} -> "rectangle"

\* C18: a decision node is drawn as a diamond, a start or end node as an
\* ellipse, a data node as a trapezoid, a process or default node as a
\* rectangle.
C18_KindOfEveryType ==
    generated = "return" =>
        /\ Len(GeoShapes) = Len(LayoutNodes)
        /\ \A i \in 1..Len(LayoutNodes) :
              GeoShapes[i].props.geo = KindClaimed(Get(LayoutNodes[i], "type"))

C18_Witness ==
    /\ generated = "return"
    /\ { GeoShapes[i].props.geo : i \in 1..Len(GeoShapes) }
          = {"diamond", "ellipse", "trapezoid", "rectangle"}
    /\ \E i \in 1..Len(LayoutNodes) : Get(LayoutNodes[i], "type") = Str("default")

\* C19: generateTldrawShapes creates one node shape per positioned node, with
\* the node's x, y, width, height, kind and label and a shape id no other
\* shape of the call has, and at the end the map sends the id of every node
\* to the id of the shape created for that node.
C19_OneShapePerNodeAndMap ==
    generated = "return" =>
        /\ Len(GeoShapes) = Len(LayoutNodes)
        /\ \A i \in 1..Len(LayoutNodes) :
              /\ GeoShapes[i].x = Get(LayoutNodes[i], "x")
              /\ GeoShapes[i].y = Get(LayoutNodes[i], "y")
              /\ GeoShapes[i].props.w = Get(LayoutNodes[i], "width")
              /\ GeoShapes[i].props.h = Get(LayoutNodes[i], "height")
              /\ GeoShapes[i].props.geo = getGeoTypeForNode(Get(LayoutNodes[i], "type"))
              /\ GeoShapes[i].props.text = Get(LayoutNodes[i], "label")
              /\ Get(LayoutNodes[i], "id") \in DOMAIN nodeShapeMap
              /\ nodeShapeMap[Get(LayoutNodes[i], "id")] = GeoShapes[i].id
        /\ \A i, j \in 1..Len(shapes) : i # j => shapes[i].id # shapes[j].id

\* the edges whose source and target are ids of nodes of the layout
Mapped(edge) ==
    /\ SomeIdIs(LayoutNodes, Get(edge, "source"))
    /\ SomeIdIs(LayoutNodes, Get(edge, "target"))

MappedEdges == SelectSeq(LayoutEdges, Mapped)

TextOf(edge) == IF Truthy(Get(edge, "label")) THEN Get(edge, "label") ELSE JStr(<<>>)

\* C20: when an edge of the layout names a source or a target that is not in
\* the map, generateTldrawShapes returns, creates no arrow for that edge,
\* creates the arrows of all the other edges, in order, and creates every
\* node shape.
C20_DanglingEdgeSkipped ==
    generated # "pending" =>
        /\ generated = "return"
        /\ Len(GeoShapes) = Len(LayoutNodes)
        /\ Len(ArrowShapes) = Len(MappedEdges)
        /\ \A k \in 1..Len(MappedEdges) :
              /\ ArrowShapes[k].props.text = TextOf(MappedEdges[k])
              /\ ArrowShapes[k].props.start.x =
                    LET n == LayoutNodes[FindNode(LayoutNodes, Get(MappedEdges[k], "source"))]
                    IN  Get(n, "x").v + Half(Get(n, "width").v)
              /\ ArrowShapes[k].props.end.x =
                    LET n == LayoutNodes[FindNode(LayoutNodes, Get(MappedEdges[k], "target"))]
                    IN  Get(n, "x").v + Half(Get(n, "width").v)

C20_Witness ==
    /\ generated = "return"
    /\ Len(LayoutEdges) = 2
    /\ Len(MappedEdges) = 1
    /\ Len(ArrowShapes) = 1
    /\ Len(GeoShapes) >= 2

\* the edges whose source and target are keys of the id map, in edge order
ThroughMap == SelectSeq(LayoutEdges, LAMBDA e :
    Get(e, "source") \in DOMAIN nodeShapeMap /\ Get(e, "target") \in DOMAIN nodeShapeMap)

\* the midpoint of the face of a box that looks along the layout direction
\* (downstream) or against it (upstream)
FaceMidpoint(n, rankdir, downstream) ==
    LET x == Get(n, "x").v
        y == Get(n, "y").v
        w == Get(n, "width").v
        h == Get(n, "height").v
        far == (rankdir \in {"TB", "LR"}) = downstream
    IN  IF rankdir \in {"TB", "BT"}
        THEN [x |-> x + Half(w), y |-> IF far THEN y + h ELSE y]
        ELSE [x |-> IF far THEN x + w ELSE x, y |-> y + Half(h)]

\* the direction that produced the layout
ProducedWith == Destructure(givenOptions).rankdir

\* C21: every connector starts at the midpoint of the downstream face of the
\* box of its source node and ends at the midpoint of the upstream face of
\* the box of its target node, downstream and upstream being taken along the
\* direction the layout was produced with.
C21_ConnectorFacesFollowDirection ==
    generated = "return" =>
        /\ Len(ArrowShapes) = Len(ThroughMap)
        /\ \A k \in 1..Len(ThroughMap) :
              LET source == LayoutNodes[FindNode(LayoutNodes, Get(ThroughMap[k], "source"))]
                  target == LayoutNodes[FindNode(LayoutNodes, Get(ThroughMap[k], "target"))]
              IN  /\ ArrowShapes[k].props.start = FaceMidpoint(source, ProducedWith, TRUE)
                  /\ ArrowShapes[k].props.end = FaceMidpoint(target, ProducedWith, FALSE)

\* an instruction without its shape id: type, box or endpoints, kind, label,
\* fill and color
Instruction(shape) == [type |-> shape.type, x |-> shape.x, y |-> shape.y, props |-> shape.props]

IdsIn(batch) == { batch[i].id : i \in 1..Len(batch) }

\* C22: a second call of generateTldrawShapes on the same LayoutResult creates
\* as many shapes as the first, and the two sequences agree place by place on
\* type, kind, box, endpoints, label and color; only the shape ids differ.
C22_SameInstructionsOtherIds ==
    regenerated.kind # "pending" =>
        /\ regenerated.kind = "return"
        /\ Len(regenerated.created) = Len(shapes)
        /\ \A i \in 1..Len(shapes) :
              Instruction(regenerated.created[i]) = Instruction(shapes[i])
        /\ IdsIn(regenerated.created) \cap IdsIn(shapes) = {}

C22_Witness ==
    /\ regenerated.kind = "return"
    /\ Len(GeoShapes) >= 2
    /\ Len(ArrowShapes) >= 1
    /\ Len(LayoutEdges) > Len(ArrowShapes)
    /\ regenerated.created[1].id > shapes[Len(shapes)].id

\* C30: the shapes are created in this order: one node shape per node of the
\* layout, in node order, and only then one connector per edge whose source
\* and target are keys of the id map, in edge order, each with the label of
\* its edge, or with the empty string when the edge has no label.
C30_NodesThenConnectorsInOrder ==
    generated = "return" =>
        /\ Len(shapes) = Len(LayoutNodes) + Len(ThroughMap)
        /\ \A i \in 1..Len(LayoutNodes) :
              /\ shapes[i].type = "geo"
              /\ shapes[i].props.text = Get(LayoutNodes[i], "label")
              /\ shapes[i].x = Get(LayoutNodes[i], "x")
              /\ shapes[i].y = Get(LayoutNodes[i], "y")
        /\ \A k \in 1..Len(ThroughMap) :
              LET arrow == shapes[Len(LayoutNodes) + k]
                  label == Get(ThroughMap[k], "label")
              IN  /\ arrow.type = "arrow"
                  /\ arrow.props.text =
                        (IF Has(ThroughMap[k], "label") /\ label # JStr(<<>>)
                         THEN label ELSE JStr(<<>>))
                  /\ arrow.props.start.y =
                        LET n == LayoutNodes[FindNode(LayoutNodes, Get(ThroughMap[k], "source"))]
                        IN  Get(n, "y").v + Get(n, "height").v
                  /\ arrow.props.end.y =
                        LET n == LayoutNodes[FindNode(LayoutNodes, Get(ThroughMap[k], "target"))]
                        IN  Get(n, "y").v

C30_Witness ==
    /\ generated = "return"
    /\ Len(LayoutNodes) >= 3
    /\ Len(ThroughMap) = 2
    /\ shapes[Len(shapes)].props.text # JStr(<<>>)
    /\ shapes[Len(shapes) - 1].props.text = JStr(<<>>)
    /\ \E i, j \in 1..Len(LayoutNodes) :
          i < j /\ Get(LayoutNodes[i], "label") # Get(LayoutNodes[j], "label")

----------------------------------------------------------------------------
(* Claims on the host: turns, the effect that draws, the canvas *)

\* the instructions of a batch, place by place, without the shape ids
Instructions(batch) == [i \in 1..Len(batch) |-> Instruction(batch[i])]

\* the instructions of the diagram of a model
Expected(graphModel) == Instructions(Batch(graphModel, 1))

\* the latest event is a response, and the message it appended
Answered == lastEvent = "response" /\ messages # <<>>
Answer == messages[Len(messages)]

\* C23: the diagram of a response reaches the canvas whole: in every state
\* from the arrival of a response with a diagram on, the canvas holds either
\* what it held when the response arrived or the whole diagram of the
\* response, never a cleared canvas or a part of the diagram.
C23_DiagramAppearsWhole ==
    (Answered /\ Truthy(Answer.diagramData)) =>
        \/ shapes = before
        \/ Instructions(shapes) = Expected(Answer.diagramData)

\* C24: a turn whose response carries no diagram (no markers, a block that
\* does not parse, a model the validator rejects, a failed request) leaves
\* the canvas as it was when the response arrived, whatever came earlier.
C24_NoDiagramLeavesCanvas ==
    (Answered /\ ~Truthy(Answer.diagramData)) =>
        /\ shapes = before
        /\ draw = NotDrawing

C24_Witness ==
    /\ Answered
    /\ Quiet
    /\ Len(messages) = 4
    /\ ~Truthy(Answer.diagramData)
    /\ error = <<"Failed to fetch">>
    /\ Truthy(messages[2].diagramData)
    /\ Instructions(shapes) = Expected(messages[2].diagramData)

\* C27: once the effect has run for a response with a valid model, the canvas
\* holds the node shapes and connectors of that model and nothing else: no
\* shape that was on the canvas when the response arrived is left.
C27_DiagramReplacesCanvas ==
    (Answered /\ Quiet /\ Truthy(Answer.diagramData)) =>
        /\ Instructions(shapes) = Expected(Answer.diagramData)
        /\ IdsIn(shapes) \cap IdsIn(before) = {}

C27_Witness ==
    /\ Answered
    /\ Quiet
    /\ Truthy(Answer.diagramData)
    /\ \E i \in 1..Len(before) : before[i].props.text = Str("Test Node 2")
    /\ Len(shapes) = 3

C25_LastExtractedShown ==
    (inflight = {} /\ Quiet /\ Truthy(lastExtracted)) =>
        Instructions(shapes) = Expected(lastExtracted)

C25_Witness ==
    /\ inflight = {}
    /\ Quiet
    /\ log = << [turn |-> 1, role |-> "user"], [turn |-> 2, role |-> "user"],
               [turn |-> 2, role |-> "assistant"], [turn |-> 1, role |-> "assistant"] >>
    /\ Truthy(messages[3].diagramData)
    /\ Truthy(messages[4].diagramData)
    /\ messages[3].diagramData # messages[4].diagramData
    /\ Instructions(shapes) = Expected(messages[4].diagramData)

UserEntries(t) == { i \in 1..Len(log) : log[i] = [turn |-> t, role |-> "user"] }
AssistantEntries(t) == { i \in 1..Len(log) : log[i] = [turn |-> t, role |-> "assistant"] }

\* what every state shows of the calls that passed the guards
OneAnswerPerTurn ==
    /\ \A t \in 1..turns :
          /\ Cardinality(UserEntries(t)) = 1
          /\ Cardinality(AssistantEntries(t)) = (IF t \in inflight THEN 0 ELSE 1)
          /\ \A i \in UserEntries(t), j \in AssistantEntries(t) : i < j
    /\ Len(log) = 2 * turns - Cardinality(inflight)
    /\ inflight = {} => ~isLoading
    /\ (Answered /\ error # <<>>) =>
          /\ Answer.role = "assistant"
          /\ Answer.diagramData = JUndefined

\* a call that fails a guard
Refused == lastEvent' = "refused" /\ lastEvent # "refused"

\* C28: a call of sendMessage that passes the guards appends the user message
\* and then, when its request settles, exactly one assistant message (on a
\* failure an error message without a diagram), and isLoading ends false; a
\* call that fails a guard appends nothing and starts no request.
C28_EveryTurnAnswered ==
    /\ []OneAnswerPerTurn
    /\ [][Refused => UNCHANGED <<messages, log, turns, inflight, isLoading>>]_vars
    /\ \A t \in 1..MaxTurns : (t \in inflight) ~> (t \notin inflight /\ ~isLoading)

C28_Witness ==
    /\ turns = 2
    /\ inflight = {}
    /\ ~isLoading
    /\ Len(log) = 4
    /\ Len(messages) = 4
    /\ error # <<>>
    /\ Truthy(messages[2].diagramData)
    /\ lastEvent = "refused"

====
